---------------------------- MODULE Spec2Model ----------------------------
(***************************************************************************)
(* Model of the OLX link collector (src/coletor_links.py): the first-page  *)
(* request, the page-count decision, the worker pool that fetches pages    *)
(* 2..N, and the coordinator loop that merges the results and writes the   *)
(* output file; of its page parser parse_data; of the single-listing       *)
(* extractor extract_data_turbo (src/main_fast.py); and of the listing     *)
(* scraper's main(), extract_data and extract_vendor_name (src/main.py).   *)
(***************************************************************************)
EXTENDS Integers, Sequences, FiniteSets, TLC

VARIABLES
    pc,             \* position of main(): start, page1, plan, dispatch, crawl, summary, done, returned, aborted, crashed
    start_url,      \* main: start_url (argv or prompt)
    args_pages,     \* main: args.pages (-p/--pages, default 0)
    page1_resp,     \* main: resp of the first session.get
    page1_links,    \* main: page1_links
    total_ads,      \* main: total_ads
    total_pages,    \* main: total_pages
    all_links,      \* main: all_links (a Python set)
    pages_to_fetch, \* main: pages_to_fetch (a range, kept as a set)
    future_to_page, \* main: future_to_page; page -> the URL its future was submitted with
    fstate,         \* state of each page's future: none, pending, running, finished
    resp,           \* fetch_page: resp of each worker's session.get
    result,         \* future.result() of each page
    yielded,        \* pages as_completed has already yielded to the loop
    processed,      \* main: processed
    progress,       \* the progress line on stdout (rewritten in place with \r)
    nreq,           \* number of session.get calls issued per page index
    log,            \* the logger's records, in order
    outfile,        \* links_olx_final.txt
    content,        \* parse_data: the page content it is called with
    parsed,         \* parse_data: its outcome (returned links and total, or raised)
    turbo_pc,       \* position of extract_data_turbo: start, A, B, C, returned
    turbo_url,      \* extract_data_turbo: url
    response,       \* extract_data_turbo: response of cffi_requests.get
    data,           \* extract_data_turbo: data
    json_found,     \* extract_data_turbo: json_found
    consulted,      \* the sources extract_data_turbo has looked into, in order
    turbo_log,      \* the records of the OLX_TURBO logger, in order
    scrape_pc,      \* position of main() of src/main.py: start, extract, fallback, check, display, finish, done, exit1
    scrape_url,     \* main.py main: url
    SELENIUM_AVAILABLE, \* main.py: whether the Selenium imports succeeded
    session,        \* extract_data_selenium: what the Selenium session came to
    page_fetch,     \* extract_data: what fetch_page returned
    record,         \* main.py main: data, the record extract_data returned
    has_missing,    \* main.py main: has_missing
    stdout,         \* what main.py has printed, line by line
    scrape_log      \* the records of main.py's logger, in order

crawl_vars == <<pc, start_url, args_pages, page1_resp, page1_links, total_ads, total_pages,
                all_links, pages_to_fetch, future_to_page, fstate, resp, result, yielded,
                processed, progress, nreq, log, outfile>>

parse_vars == <<content, parsed>>

turbo_vars == <<turbo_pc, turbo_url, response, data, json_found, consulted, turbo_log>>

main_vars == <<scrape_pc, scrape_url, SELENIUM_AVAILABLE, session, page_fetch, record, has_missing,
               stdout, scrape_log>>

\* What a step of the crawl leaves alone.
beyond_crawl == <<parse_vars, turbo_vars, main_vars>>

vars == <<crawl_vars, parse_vars, turbo_vars, main_vars>>

----------------------------------------------------------------------------
\* Program constants.
MAX_WORKERS == 4
SAFE_FALLBACK_PAGES == 50
ADS_PER_PAGE == 50
OLX_PAGE_LIMIT == 100
HTTP_OK == 200
HTTP_TOO_MANY == 429

\* Bounds of the model.
MaxLinks == 2          \* distinct listing URLs the site can serve
MaxCrawlPages == 3     \* the crawl is explored for plans of at most this many pages
MaxTotal == 5060       \* largest detected total the planner is checked with
MaxPagesArg == 102     \* largest -p value the planner is checked with
MaxPoolPages == 6      \* largest plan the worker pool is checked with
MaxQueryLen == 3       \* longest query string get_page_url is checked with

\* A listing URL is stood for by a number; the order of the numbers is the
\* lexicographic order of the URLs.
Links == 1..MaxLinks
Pages == 2..MaxCrawlPages
AllPages == 1..MaxCrawlPages
PoolPages == 1..MaxPoolPages

----------------------------------------------------------------------------
\* URLs: the six parts urlparse returns; the query is the sequence of its
\* key=value pairs.
Url(netloc, path, query, fragment) ==
    [scheme |-> "https", netloc |-> netloc, path |-> path, params |-> "",
     query |-> query, fragment |-> fragment]

EmptyUrl ==
    [scheme |-> "", netloc |-> "", path |-> "", params |-> "",
     query |-> <<>>, fragment |-> ""]

HasKey(d, k) == \E i \in 1..Len(d) : d[i][1] = k

KeyIndex(d, k) == CHOOSE i \in 1..Len(d) : d[i][1] = k

\* parse_qs: a dict key -> list of values, keys in order of first appearance;
\* pairs with a blank value are dropped (keep_blank_values is False).
RECURSIVE ParseQsInto(_, _)
ParseQsInto(d, q) ==
    IF q = <<>> THEN d
    ELSE LET k == Head(q)[1]
             v == Head(q)[2]
             d2 == IF v = "" THEN d
                   ELSE IF HasKey(d, k)
                        THEN [d EXCEPT ![KeyIndex(d, k)] = <<k, Append(d[KeyIndex(d, k)][2], v)>>]
                        ELSE Append(d, <<k, <<v>>>>)
         IN ParseQsInto(d2, Tail(q))

parse_qs(q) == ParseQsInto(<<>>, q)

\* d[k] = vs on a dict: an existing key keeps its place, a new one goes last.
DictSet(d, k, vs) ==
    IF HasKey(d, k) THEN [d EXCEPT ![KeyIndex(d, k)] = <<k, vs>>]
    ELSE Append(d, <<k, vs>>)

\* urlencode(d, doseq=True): one key=value pair per value, in dict order.
RECURSIVE PairsOf(_, _)
PairsOf(k, vs) ==
    IF vs = <<>> THEN <<>> ELSE <<<<k, Head(vs)>>>> \o PairsOf(k, Tail(vs))

RECURSIVE urlencode(_)
urlencode(d) ==
    IF d = <<>> THEN <<>> ELSE PairsOf(Head(d)[1], Head(d)[2]) \o urlencode(Tail(d))

\* Faulty variant: the page parameter is added to those the URL holds.
get_page_url_appends(base_url, page_num) ==
    [base_url EXCEPT !.query = urlencode(parse_qs(base_url.query)) \o <<<<"o", ToString(page_num)>>>>]

\* Lines 59-64.
get_page_url(base_url, page_num) ==
    [base_url EXCEPT !.query = urlencode(DictSet(parse_qs(base_url.query), "o", <<ToString(page_num)>>))]

\* The values a query holds for a key, in order.
RECURSIVE QueryValues(_, _)
QueryValues(q, k) ==
    IF q = <<>> THEN <<>>
    ELSE (IF Head(q)[1] = k THEN <<Head(q)[2]>> ELSE <<>>) \o QueryValues(Tail(q), k)

----------------------------------------------------------------------------
\* What a session.get can bring back: it raises, or it returns a status and a
\* content; parse_data on the content raises or gives (links, total).
Response(raised, status, parses, links, total) ==
    [raised |-> raised, status |-> status, parses |-> parses, links |-> links, total |-> total]

NoResponse == Response(FALSE, 0, FALSE, {}, 0)

\* links_olx_final.txt: whether it exists, and its lines.
File(exists, lines) == [exists |-> exists, lines |-> lines]

NoFile == File(FALSE, <<>>)

LogRec(lvl, msg, n) == [lvl |-> lvl, msg |-> msg, n |-> n]

Logged(msg) == \E i \in 1..Len(log) : log[i].msg = msg

StartLog == <<LogRec("INFO", "Iniciando Coletor V6", 0), LogRec("INFO", "URL", 0)>>

Page1Log(n) ==
    StartLog \o <<LogRec("INFO", "Analisando pagina 1", 0), LogRec("INFO", "Pagina 1 processada", n)>>

\* Faulty variant: the links from the last to the first.
RECURSIVE sorted_reverse(_)
sorted_reverse(S) ==
    IF S = {} THEN <<>>
    ELSE LET m == CHOOSE x \in S : \A y \in S : x >= y
         IN <<m>> \o sorted_reverse(S \ {m})

\* sorted(all_links)
RECURSIVE sorted(_)
sorted(S) ==
    IF S = {} THEN <<>>
    ELSE LET m == CHOOSE x \in S : \A y \in S : x <= y
         IN <<m>> \o sorted(S \ {m})

----------------------------------------------------------------------------
\* math.ceil(a / b) for a >= 0, b > 0
Ceil(a, b) == (a + b - 1) \div b

\* Faulty variants of the page-count decision: a floor for the ceiling, the limit
\* applied to the manual count too, a one-page fallback, no limit at all.
PlanPagesFloor(pages, total) ==
    IF pages > 0 THEN pages
    ELSE IF total > 0
         THEN (IF total \div ADS_PER_PAGE > OLX_PAGE_LIMIT THEN OLX_PAGE_LIMIT
               ELSE total \div ADS_PER_PAGE)
         ELSE SAFE_FALLBACK_PAGES

PlanPagesCapManual(pages, total) ==
    IF pages > 0 THEN (IF pages > OLX_PAGE_LIMIT THEN OLX_PAGE_LIMIT ELSE pages)
    ELSE IF total > 0
         THEN (IF Ceil(total, ADS_PER_PAGE) > OLX_PAGE_LIMIT THEN OLX_PAGE_LIMIT
               ELSE Ceil(total, ADS_PER_PAGE))
         ELSE SAFE_FALLBACK_PAGES

PlanPagesFallbackOne(pages, total) ==
    IF pages > 0 THEN pages
    ELSE IF total > 0
         THEN (IF Ceil(total, ADS_PER_PAGE) > OLX_PAGE_LIMIT THEN OLX_PAGE_LIMIT
               ELSE Ceil(total, ADS_PER_PAGE))
         ELSE 1

PlanPagesNoCap(pages, total) ==
    IF pages > 0 THEN pages
    ELSE IF total > 0 THEN Ceil(total, ADS_PER_PAGE)
         ELSE SAFE_FALLBACK_PAGES

\* The page-count decision (LOGICA DE DECISAO V6).
PlanPages(pages, total) ==
    IF pages > 0 THEN pages
    ELSE IF total > 0
         THEN (IF Ceil(total, ADS_PER_PAGE) > OLX_PAGE_LIMIT THEN OLX_PAGE_LIMIT
               ELSE Ceil(total, ADS_PER_PAGE))
         ELSE SAFE_FALLBACK_PAGES

PlanLog(pages, total, tp) ==
    IF pages > 0 THEN <<LogRec("INFO", "Manual", tp)>>
    ELSE IF total > 0 THEN <<LogRec("INFO", "Automatico", tp)>>
         ELSE <<LogRec("WARNING", "Total ainda indetectavel", tp),
                LogRec("WARNING", "Dica", 0)>>

\* Faulty variant: the range starts at page 1.
PagesToFetchFromOne(tp) == 1..tp

\* range(2, total_pages + 1)

PagesToFetch(tp) == 2..tp

\* Faulty variant: the status of the first response is not looked at.
FirstPageFatalOnlyRaise(r) == r.raised

\* The first request is fatal when it raises or its status is not 200.

FirstPageFatal(r) == r.raised \/ r.status # HTTP_OK

\* Faulty variant: the body is parsed whatever the status.
fetch_page_ignores_status(r) ==
    IF r.raised \/ ~r.parses THEN {} ELSE r.links

\* fetch_page's return value for the response its session.get met.

fetch_page(r) ==
    IF r.raised THEN {}
    ELSE IF r.status = HTTP_OK
         THEN (IF r.parses THEN r.links ELSE {})
         ELSE {}

\* Faulty variant: the new links replace the set.
MergeOverwrite(links, new_links) ==
    IF new_links # {} THEN new_links ELSE links

\* if new_links: all_links.update(new_links)

Merge(links, new_links) ==
    IF new_links # {} THEN links \cup new_links ELSE links

\* Faulty variant: the loop stops after the first future it is given.
ExhaustedAfterFirst == yielded # {}

\* as_completed has nothing left to yield.

Exhausted == yielded = pages_to_fetch

----------------------------------------------------------------------------
\* parse_data and its helpers (lines 66-217).
\*
\* A text is the sequence of its characters.  extract_number keeps the digits
\* of a text and reads them as a decimal number; an empty text, or one with no
\* digit, gives 0.
DigitChars == {"0", "1", "2", "3", "4", "5", "6", "7", "8", "9"}

DigitVal(c) ==
    CASE c = "0" -> 0 [] c = "1" -> 1 [] c = "2" -> 2 [] c = "3" -> 3 [] c = "4" -> 4
      [] c = "5" -> 5 [] c = "6" -> 6 [] c = "7" -> 7 [] c = "8" -> 8 [] c = "9" -> 9

OnlyDigits(text) == SelectSeq(text, LAMBDA c : c \in DigitChars)

\* int(digits) for a sequence of digits
RECURSIVE IntOf(_)
IntOf(digits) ==
    IF digits = <<>> THEN 0
    ELSE 10 * IntOf(SubSeq(digits, 1, Len(digits) - 1)) + DigitVal(digits[Len(digits)])

extract_number(text) ==
    IF text = <<>> THEN 0
    ELSE IF OnlyDigits(text) # <<>> THEN IntOf(OnlyDigits(text)) ELSE 0

\* str.isdigit() of a text
IsDigit(text) == text # <<>> /\ \A i \in 1..Len(text) : text[i] \in DigitChars

\* A JSON value as json.loads builds it: its type, its number (int), its string
\* (a word or a URL), its characters (a string with a numeric look) and its items
\* (a list's elements, or a dict's keys and values in order).
JValue(t, n, s, chars, items) == [t |-> t, n |-> n, s |-> s, chars |-> chars, items |-> items]

JNull == JValue("null", 0, "", <<>>, <<>>)
JInt(n) == JValue("int", n, "", <<>>, <<>>)
JFloat(n) == JValue("float", n, "", <<>>, <<>>)
JStr(s) == JValue("str", 0, s, <<>>, <<>>)
JText(chars) == JValue("str", 0, "", chars, <<>>)
JItem(k, v) == [k |-> k, v |-> v]
JList(vs) == JValue("list", 0, "", <<>>, [i \in 1..Len(vs) |-> JItem("", vs[i])])
JDict(kvs) == JValue("dict", 0, "", <<>>, kvs)

JHas(d, k) == d.t = "dict" /\ \E i \in 1..Len(d.items) : d.items[i].k = k

JGet(d, k) == d.items[CHOOSE i \in 1..Len(d.items) : d.items[i].k = k].v

\* A function's result that may be None.
None == [some |-> FALSE, val |-> 0]
Some(n) == [some |-> TRUE, val |-> n]

\* Python's truth of such a result
Truthy(o) == o.some /\ o.val # 0

\* Faulty variant: only an int counts, a digit string does not.
LooksDigitIntOnly(v) == v.t = "int" /\ v.n >= 0

\* isinstance(value, (int, float, str)) and str(value).isdigit()
LooksDigit(v) ==
    \/ v.t = "int" /\ v.n >= 0
    \/ v.t = "str" /\ IsDigit(v.chars)

\* int(value) of such a value
IntValue(v) == IF v.t = "int" THEN v.n ELSE IntOf(v.chars)

CountKeys == {"totalAdCount", "totalCount", "totalAdsFound", "total"}

NavKeys == {"ads", "pagination", "paging", "meta"}

\* find_deep_total, lines 76-97: the items of a dict or a list are visited in
\* order; FindFrom is the loop from item i on.
RECURSIVE find_deep_total(_), FindFrom(_, _)
find_deep_total(tree) ==
    IF tree.t \in {"dict", "list"} THEN FindFrom(tree, 1) ELSE None

FindFrom(tree, i) ==
    IF i > Len(tree.items) THEN None
    ELSE LET key == tree.items[i].k
             value == tree.items[i].v
         IN IF tree.t = "dict" /\ key \in CountKeys /\ LooksDigit(value) /\ IntValue(value) > 0
            THEN Some(IntValue(value))
            ELSE IF tree.t = "dict" /\ key \in NavKeys /\ value.t = "dict" /\ Truthy(find_deep_total(value))
            THEN find_deep_total(value)
            ELSE IF value.t \in {"dict", "list"} /\ Truthy(find_deep_total(value))
            THEN find_deep_total(value)
            ELSE FindFrom(tree, i + 1)

\* find_deep_total(props) or 0
OrZero(o) == IF Truthy(o) THEN o.val ELSE 0

\* A regular-expression search on a text of the page: whether it matched, and
\* the text of its group 1.
Match(group) == [matched |-> TRUE, group |-> group]
NoMatch == [matched |-> FALSE, group |-> <<>>]

\* try_extract_visible_total, lines 99-120.  candidates: for each tag the
\* keyword search selects, the search for "<number> resultado|anuncio|oferta" in
\* its text; pag: whether a text "de <number>" was found, and the search in it.
RECURSIVE FirstPositive(_)
FirstPositive(candidates) ==
    IF candidates = <<>> THEN 0
    ELSE IF Head(candidates).matched /\ extract_number(Head(candidates).group) > 0
         THEN extract_number(Head(candidates).group)
         ELSE FirstPositive(Tail(candidates))

try_extract_visible_total(soup) ==
    IF FirstPositive(soup.candidates) > 0 THEN FirstPositive(soup.candidates)
    ELSE IF soup.pag.found /\ soup.pag.search.matched THEN extract_number(soup.pag.search.group)
    ELSE 0

\* try_extract_meta_total, lines 122-135.  title: absent, or a tag whose .string
\* is None (re.search then raises TypeError), or a text with its search;
\* description: the meta tag's content, when there is one, with its search.
MetaRaises(soup) == soup.title.kind = "nostring"

try_extract_meta_total(soup) ==
    IF soup.title.kind = "text" /\ soup.title.search.matched
    THEN extract_number(soup.title.search.group)
    ELSE IF soup.description.present /\ soup.description.search.matched
    THEN extract_number(soup.description.search.group)
    ELSE 0

\* Lines 196-215: the four patterns in order on the raw source; a match counts
\* only when its value is above PLAUSIBLE_MIN.
PLAUSIBLE_MIN == 5

\* Faulty variant: the first pattern that matches gives the total, whatever
\* its value.
RECURSIVE RawRegexTotalUnfiltered(_)
RawRegexTotalUnfiltered(raw) ==
    IF raw = <<>> THEN 0
    ELSE IF Head(raw).matched THEN IntOf(Head(raw).group)
         ELSE RawRegexTotalUnfiltered(Tail(raw))

RECURSIVE RawRegexTotal(_)
RawRegexTotal(raw) ==
    IF raw = <<>> THEN 0
    ELSE IF Head(raw).matched /\ IntOf(Head(raw).group) > PLAUSIBLE_MIN
         THEN IntOf(Head(raw).group)
         ELSE RawRegexTotal(Tail(raw))

\* Lines 145-154: the total the structured payload gives, 0 when there is no
\* payload or reading it raises before line 154.
JsonTotal(c) ==
    IF c.next_data.kind = "ok" THEN OrZero(find_deep_total(c.next_data.props)) ELSE 0

\* Faulty variants of the cascade: a later strategy is consulted although an
\* earlier one gave a total; the visible text goes before the payload.
TotalCascadeMetaOverrides(c) ==
    IF try_extract_meta_total(c) > 0 THEN try_extract_meta_total(c)
    ELSE IF JsonTotal(c) # 0 THEN JsonTotal(c)
    ELSE IF try_extract_visible_total(c) # 0 THEN try_extract_visible_total(c)
    ELSE RawRegexTotal(c.raw)

\* Lines 183-215: total_ads_found through the strategies, each consulted only
\* while the total is still 0.
TotalCascade(c) ==
    IF JsonTotal(c) # 0 THEN JsonTotal(c)
    ELSE IF try_extract_visible_total(c) # 0 THEN try_extract_visible_total(c)
    ELSE IF try_extract_meta_total(c) # 0 THEN try_extract_meta_total(c)
    ELSE RawRegexTotal(c.raw)

\* parse_data raises when the cascade reaches the meta strategy and the title
\* has no string: nothing inside try_extract_meta_total or around its call
\* catches the TypeError.
ParseRaises(c) ==
    JsonTotal(c) = 0 /\ try_extract_visible_total(c) = 0 /\ MetaRaises(c)

\* The URLs the pages of the model hold, and what the code's tests say of each:
\* 'olx.com.br' in url; 'autos-e-pecas' in href or 'carros' in href;
\* re.search(r'-\d{8,}$', href); href.split('?')[0].
UrlGol == "https://sp.olx.com.br/autos-e-pecas/carros/gol-1234567890"
UrlGolQuery == "https://sp.olx.com.br/autos-e-pecas/carros/gol-1234567890?lis=x-12345678"
UrlUno == "https://sp.olx.com.br/autos-e-pecas/carros/uno-2345678901"
UrlHelp == "https://www.olx.com.br/ajuda"
UrlOther == "https://example.com/carros/gol-1234567890"

HasOlx(url) == url \in {UrlGol, UrlGolQuery, UrlUno, UrlHelp}

HasSection(href) == href \in {UrlGol, UrlGolQuery, UrlUno, UrlOther}

EndsWithId(href) == href \in {UrlGol, UrlGolQuery, UrlUno, UrlOther}

BeforeQuery(href) == IF href = UrlGolQuery THEN UrlGol ELSE href

\* Lines 157-162: ads_list.
AdsList(props) ==
    IF JHas(props, "ads")
    THEN (IF JGet(props, "ads").t = "list" THEN JGet(props, "ads")
          ELSE IF JGet(props, "ads").t = "dict"
               THEN (IF JHas(JGet(props, "ads"), "data") THEN JGet(JGet(props, "ads"), "data") ELSE JList(<<>>))
               ELSE JList(<<>>))
    ELSE IF JHas(props, "req") /\ JHas(JGet(props, "req"), "ads") THEN JGet(JGet(props, "req"), "ads")
    ELSE JList(<<>>)

\* Python's truth of a JSON value
JTruthy(v) ==
    CASE v.t = "null" -> FALSE
      [] v.t \in {"int", "float"} -> v.n # 0
      [] v.t = "str" -> v.s # "" \/ v.chars # <<>>
      [] OTHER -> v.items # <<>>

\* Lines 164-168: the loop over ads_list from item i on, with the links added so
\* far; an item that is no dict, or a url that is a number, raises and ends the
\* loop (line 169 catches it), and what was added stays.
RECURSIVE JsonLinksFrom(_, _, _)
JsonLinksFrom(ads, i, links) ==
    IF ads.t # "list" \/ i > Len(ads.items) THEN links
    ELSE LET ad == ads.items[i].v
             url == IF JHas(ad, "url") THEN JGet(ad, "url") ELSE JNull
         IN IF ad.t # "dict" THEN links
            ELSE IF ~JTruthy(url) THEN JsonLinksFrom(ads, i + 1, links)
            ELSE IF url.t \in {"int", "float"} THEN links
            ELSE IF url.t = "str" /\ HasOlx(url.s) THEN JsonLinksFrom(ads, i + 1, links \cup {url.s})
            ELSE JsonLinksFrom(ads, i + 1, links)

JsonLinks(c) ==
    IF c.next_data.kind = "ok" /\ c.next_data.props.t = "dict"
    THEN JsonLinksFrom(AdsList(c.next_data.props), 1, {})
    ELSE {}

\* Lines 173-180: the anchors of the page that look like a listing.
HtmlLinks(c) ==
    {BeforeQuery(c.anchors[i]) : i \in {j \in 1..Len(c.anchors) :
        HasOlx(c.anchors[j]) /\ HasSection(c.anchors[j]) /\ EndsWithId(c.anchors[j])}}

\* Faulty variant: the anchors are added to what the payload gave.
PageLinksMerged(c) == JsonLinks(c) \cup HtmlLinks(c)

\* Lines 145-180: links.
PageLinks(c) == IF JsonLinks(c) # {} THEN JsonLinks(c) ELSE HtmlLinks(c)

\* parse_data's outcome: not called yet, returned (links, total), or raised.
NotParsed == [state |-> "none", links |-> {}, total |-> 0]

parse_data(c) ==
    IF ParseRaises(c) THEN [state |-> "raised", links |-> {}, total |-> 0]
    ELSE [state |-> "returned", links |-> PageLinks(c), total |-> TotalCascade(c)]

\* The page contents parse_data is checked with.
PageContent(next_data, anchors, candidates, pag, title, description, raw) ==
    [next_data |-> next_data, anchors |-> anchors, candidates |-> candidates, pag |-> pag,
     title |-> title, description |-> description, raw |-> raw]

NextData(kind, props) == [kind |-> kind, props |-> props]

Ad(url) == JDict(<<JItem("url", JStr(url))>>)

PropsSamples ==
    { JDict(<<>>),
      JDict(<<JItem("totalCount", JInt(0)),
              JItem("ads", JList(<<Ad(UrlGol), Ad(UrlOther)>>))>>),
      JDict(<<JItem("ads", JDict(<<JItem("data", JList(<<Ad(UrlUno)>>)),
                                   JItem("total", JText(<<"1", "2">>))>>))>>),
      JDict(<<JItem("total", JStr("muitos")),
              JItem("pagination", JDict(<<JItem("total", JInt(-1)), JItem("totalAdsFound", JInt(7))>>)),
              JItem("req", JDict(<<JItem("ads", JList(<<Ad(UrlGol), JInt(3), Ad(UrlUno)>>))>>))>>),
      JDict(<<JItem("items", JList(<<JDict(<<JItem("meta", JDict(<<JItem("totalAdCount", JFloat(2))>>))>>),
                                     JDict(<<JItem("totalAdCount", JInt(1200))>>)>>))>>) }

NextDataSamples ==
    {NextData("absent", JNull), NextData("invalid", JNull)} \cup {NextData("ok", p) : p \in PropsSamples}

AnchorSamples == { <<>>, <<UrlHelp, UrlGolQuery, UrlOther, UrlUno, UrlGol>> }

CandidateSamples ==
    { <<>>,
      <<Match(<<"0">>)>>,
      <<NoMatch, Match(<<"0">>), Match(<<"1", ".", "2", "0", "0">>), Match(<<"9">>)>> }

Pag(found, search) == [found |-> found, search |-> search]

PagSamples == { Pag(FALSE, NoMatch), Pag(TRUE, NoMatch), Pag(TRUE, Match(<<"0">>)), Pag(TRUE, Match(<<"3", "5", "0">>)) }

Title(kind, search) == [kind |-> kind, search |-> search]

TitleSamples ==
    { Title("absent", NoMatch), Title("nostring", NoMatch), Title("text", NoMatch),
      Title("text", Match(<<"0">>)), Title("text", Match(<<"1", "2", ".", "3", "9", "4">>)) }

Description(present, search) == [present |-> present, search |-> search]

DescriptionSamples == { Description(FALSE, NoMatch), Description(TRUE, Match(<<"8">>)) }

RawPatterns == 1..4

RawSamples == [RawPatterns -> {NoMatch, Match(<<"5">>), Match(<<"6">>)}]

NoContent ==
    PageContent(NextData("absent", JNull), <<>>, <<>>, Pag(FALSE, NoMatch), Title("absent", NoMatch),
                Description(FALSE, NoMatch), <<>>)

\* No parse_data call of its own is under way: the crawl's calls are part of
\* its requests.
NoParse == content = NoContent /\ parsed = NotParsed

----------------------------------------------------------------------------
\* The single-listing scraper (src/main_fast.py).  The values of the record are
\* Python values as json.loads and the code build them: JNull is None.
Fields ==
    {"id_anuncio", "nome_vendedor", "marca_veiculo", "modelo_veiculo", "versao_veiculo",
     "valor_anuncio", "preco_fipe", "preco_medio_olx", "telefone", "quilometragem", "bairro",
     "cidade_estado_cep", "ano_veiculo", "link"}

\* Lines 142-148: the record extract_data_turbo starts with.
BlankData == [k \in Fields \cup {"origem_dados"} |-> IF k = "origem_dados" THEN JStr("N/A") ELSE JNull]

\* d.get(k, default) and d.get(k)
JGetOr(d, k, default) == IF JHas(d, k) THEN JGet(d, k) ELSE default

JGetOrNone(d, k) == JGetOr(d, k, JNull)

\* a or b
PyOr(a, b) == IF JTruthy(a) THEN a ELSE b

\* str(v), for None, numbers and strings
PyStr(v) ==
    CASE v.t = "null" -> JStr("None")
      [] v.t \in {"int", "float"} -> JStr(ToString(v.n))
      [] OTHER -> v

\* f"{n:,.0f}".replace(',', '.') for a whole number n >= 0
Pad3(m) == IF m < 10 THEN "00" \o ToString(m) ELSE IF m < 100 THEN "0" \o ToString(m) ELSE ToString(m)

RECURSIVE Thousands(_)
Thousands(n) == IF n < 1000 THEN ToString(n) ELSE Thousands(n \div 1000) \o "." \o Pad3(n % 1000)

\* The strings of the model that hold 'R$'.
CurrencyStrings == {"R$ 45.000", "R$ 44.000", "R$ 43.900"}

HasCurrency(v) == v.t = "str" /\ v.s \in CurrencyStrings

\* format_currency, lines 50-58; float() of the model's other strings raises,
\* and the function then returns str(value).
format_currency(value) ==
    IF ~JTruthy(value) THEN JNull
    ELSE IF HasCurrency(value) THEN value
    ELSE IF value.t \in {"int", "float"} THEN JStr("R$ " \o Thousands(value.n))
    ELSE PyStr(value)

\* clean_text, lines 40-43, on the texts of the model.
clean_text(text) ==
    IF ~JTruthy(text) THEN JNull
    ELSE IF text = JStr(" R$ 43.900\n") THEN JStr("R$ 43.900")
    ELSE text

\* The outcome of a piece of code that may raise: whether it did, and the
\* record as it left it.
Done(d) == [raised |-> FALSE, data |-> d]
Raised(d) == [raised |-> TRUE, data |-> d]

\* extract_from_json, lines 63-70: the basic data.  ad_data.get raises when
\* ad_data is no dict.
Basics(ad_data, d) ==
    IF ad_data.t # "dict" THEN Raised(d)
    ELSE LET price == JGetOr(ad_data, "priceValue", JGetOr(ad_data, "price", JStr("")))
         IN Done([d EXCEPT
                !.id_anuncio = PyStr(JGetOr(ad_data, "listId", JGetOr(ad_data, "adId", d.id_anuncio))),
                !.versao_veiculo = JGetOr(ad_data, "subject", JGetOr(ad_data, "title", JStr(""))),
                !.valor_anuncio = IF JTruthy(price) /\ ~HasCurrency(PyStr(price))
                                  THEN format_currency(price) ELSE price])

\* Lines 73-74: the seller.  user.get raises when user is no dict.
Seller(ad_data, d) ==
    LET user == JGetOr(ad_data, "user", JDict(<<>>))
    IN IF user.t # "dict" THEN Raised(d)
       ELSE Done([d EXCEPT !.nome_vendedor = JGetOr(user, "name", JStr(""))])

\* d[k] = v on a JSON dict
JSet(d, k, v) ==
    IF JHas(d, k)
    THEN [d EXCEPT !.items = [i \in 1..Len(d.items) |-> IF d.items[i].k = k THEN JItem(k, v) ELSE d.items[i]]]
    ELSE [d EXCEPT !.items = Append(d.items, JItem(k, v))]

\* Lines 78-88: the properties list turned into a dict, from item i on; the
\* result is JNull when an item is no dict (p.get raises).
RECURSIVE PropertiesFrom(_, _, _)
PropertiesFrom(ps, i, properties) ==
    IF i > Len(ps.items) THEN properties
    ELSE LET p == ps.items[i].v
         IN IF p.t # "dict" THEN JNull
            ELSE LET byName == IF JTruthy(JGetOrNone(p, "name"))
                               THEN JSet(properties, JGetOrNone(p, "name").s, JGetOrNone(p, "value"))
                               ELSE properties
                     byLabel == IF JTruthy(JGetOrNone(p, "label"))
                                THEN JSet(byName, JGetOrNone(p, "label").s, JGetOrNone(p, "value"))
                                ELSE byName
                 IN PropertiesFrom(ps, i + 1, byLabel)

Properties(ad_data) ==
    IF JHas(ad_data, "properties") /\ JGet(ad_data, "properties").t = "list"
    THEN PropertiesFrom(JGet(ad_data, "properties"), 1, JDict(<<>>))
    ELSE JDict(<<>>)

\* Lines 91-103: mileage, year, model and brand, from the root or the properties.
Vehicle(ad_data, d) ==
    LET properties == Properties(ad_data)
    IN IF properties = JNull THEN Raised(d)
       ELSE Done([d EXCEPT
                !.quilometragem = PyStr(JGetOr(ad_data, "mileage", JGetOr(properties, "mileage", JStr("")))),
                !.ano_veiculo = PyStr(JGetOr(ad_data, "regdate", JGetOr(properties, "regdate", JStr("")))),
                !.modelo_veiculo = JGetOr(ad_data, "model", JGetOr(properties, "vehicle_model",
                                                                   JGetOr(properties, "Modelo", JStr("")))),
                !.marca_veiculo = PyOr(JGetOrNone(ad_data, "brand"),
                                       PyOr(JGetOrNone(ad_data, "vehicle_brand"),
                                            PyOr(JGetOrNone(properties, "vehicle_brand"),
                                                 JGetOrNone(properties, "Marca"))))])

\* Lines 106-109: the location.  loc.get raises when loc is no dict.
Location(ad_data, d) ==
    LET loc == JGetOr(ad_data, "location", JDict(<<>>))
    IN IF loc.t # "dict" THEN Raised(d)
       ELSE Done([d EXCEPT
                !.bairro = JGetOr(loc, "neighbourhood", JStr("")),
                !.cidade_estado_cep =
                    IF JTruthy(JGetOrNone(loc, "municipality"))
                    THEN JStr(PyStr(JGetOrNone(loc, "municipality")).s \o " - " \o PyStr(JGetOrNone(loc, "uf")).s
                              \o ", " \o PyStr(JGetOr(loc, "zipcode", JStr(""))).s)
                    ELSE @])

\* Lines 114-133: the reference prices.  A truthy priceStats or abuyFipePrice
\* that is a number raises at the `in` test; a truthy abuyPriceRef that is no
\* dict raises at .get.
InTestRaises(v) == JTruthy(v) /\ v.t \in {"int", "float"}

GetRaises(v) == JTruthy(v) /\ v.t # "dict"

ReferencePrices(ad_data, d) ==
    LET price_stats == JGetOr(ad_data, "priceStats", JDict(<<>>))
        d1 == IF JTruthy(price_stats) /\ price_stats.t = "dict"
              THEN [d EXCEPT
                      !.preco_fipe = IF JHas(price_stats, "fipePrice")
                                     THEN format_currency(JGet(price_stats, "fipePrice")) ELSE @,
                      !.preco_medio_olx = IF JHas(price_stats, "averagePrice")
                                          THEN format_currency(JGet(price_stats, "averagePrice")) ELSE @]
              ELSE d
        fipe_obj == JGetOrNone(ad_data, "abuyFipePrice")
        d2 == IF ~JTruthy(d1.preco_fipe) /\ JTruthy(fipe_obj) /\ JHas(fipe_obj, "fipePrice")
              THEN [d1 EXCEPT !.preco_fipe = format_currency(JGet(fipe_obj, "fipePrice"))]
              ELSE d1
        ref_obj == JGetOrNone(ad_data, "abuyPriceRef")
        val == PyOr(JGetOrNone(ref_obj, "price_p50"), JGetOrNone(ref_obj, "average_price"))
        d3 == IF ~JTruthy(d2.preco_medio_olx) /\ JTruthy(ref_obj) /\ JTruthy(val)
              THEN [d2 EXCEPT !.preco_medio_olx = format_currency(val)]
              ELSE d2
    IN IF InTestRaises(price_stats) THEN Raised(d)
       ELSE IF ~JTruthy(d1.preco_fipe) /\ InTestRaises(fipe_obj) THEN Raised(d1)
       ELSE IF ~JTruthy(d2.preco_medio_olx) /\ GetRaises(ref_obj) THEN Raised(d2)
       ELSE Done(d3)

\* Lines 136-138: the phone.  phone_obj.get raises when phone_obj is no dict.
Phone(ad_data, d) ==
    LET phone_obj == JGetOr(ad_data, "phone", JDict(<<>>))
    IN IF phone_obj.t # "dict" THEN Raised(d)
       ELSE Done([d EXCEPT !.telefone = IF JTruthy(JGetOrNone(phone_obj, "phone"))
                                        THEN JGetOrNone(phone_obj, "phone") ELSE @])

\* extract_from_json, lines 60-138: it writes the record as it goes, so what it
\* wrote before raising stays written.  Each piece runs on the outcome of the
\* one before, when that one did not raise.
extract_from_json(ad_data, data_dict) ==
    CHOOSE outcome \in
        { IF prices.raised THEN prices ELSE Phone(ad_data, prices.data) :
            prices \in
        { IF location.raised THEN location ELSE ReferencePrices(ad_data, location.data) :
            location \in
        { IF vehicle.raised THEN vehicle ELSE Location(ad_data, vehicle.data) :
            vehicle \in
        { IF seller.raised THEN seller ELSE Vehicle(ad_data, seller.data) :
            seller \in
        { IF basics.raised THEN basics ELSE Seller(ad_data, basics.data) :
            basics \in {Basics(ad_data, data_dict)} } } } } } : TRUE

\* The listing URLs of the model, with what the two searches of lines 151-159
\* find in each: the listing id, and the brand segment in title case.
ListingUrl == "https://sp.olx.com.br/autos-e-pecas/carros-vans-e-utilitarios/vw-volkswagen/gol-1-0-1234567890?lis=x"
PlainUrl == "https://www.olx.com.br/anuncio"

TurboUrls == {ListingUrl, PlainUrl}

UrlId(u) == IF u = ListingUrl THEN JStr("1234567890") ELSE JNull

UrlMarca(u) == IF u = ListingUrl THEN JStr("Vw Volkswagen") ELSE JNull

\* Lines 150-159.
DataFromUrl(u) ==
    [BlankData EXCEPT
        !.id_anuncio = UrlId(u),
        !.link = IF UrlId(u) # JNull THEN JStr("https://olx.com.br/vi/" \o UrlId(u).s) ELSE JNull,
        !.marca_veiculo = UrlMarca(u)]

\* A structured payload of the page: absent (no tag, or no data-json
\* attribute), invalid (json.loads raises), or the value json.loads returns.
Payload(kind, json) == [kind |-> kind, json |-> json]

\* The elements the CSS fallback looks for: the brand link's text, the price
\* element's text (JNull when there is no such element) and the price boxes,
\* each with what its upper-cased text holds ('FIPE'; 'MEDIO' and 'OLX') and the
\* text of its bold element (JNull when it has none).
Css(marca, valor, containers) == [marca |-> marca, valor |-> valor, containers |-> containers]

PriceBox(fipe, medio_olx, val) == [fipe |-> fipe, medio_olx |-> medio_olx, val |-> val]

TurboResponse(raised, status_code, initial_data, next_data, css) ==
    [raised |-> raised, status_code |-> status_code, initial_data |-> initial_data,
     next_data |-> next_data, css |-> css]

NoCss == Css(JNull, JNull, <<>>)

NoTurboResponse == TurboResponse(FALSE, 0, Payload("absent", JNull), Payload("absent", JNull), NoCss)

\* The ads of the model's payloads; src tells the payloads apart.
FullAd(src) ==
    JDict(<<JItem("listId", JInt(1234567890)),
            JItem("subject", JStr("Gol 1.0 " \o src)),
            JItem("priceValue", JInt(45000)),
            JItem("user", JDict(<<JItem("name", JStr("Henrique " \o src))>>)),
            JItem("properties", JList(<<
                JDict(<<JItem("name", JStr("mileage")), JItem("label", JStr("Quilometragem")), JItem("value", JStr("1000"))>>),
                JDict(<<JItem("name", JStr("vehicle_model")), JItem("label", JStr("Modelo")), JItem("value", JStr("GOL " \o src))>>),
                JDict(<<JItem("name", JStr("vehicle_brand")), JItem("label", JStr("Marca")), JItem("value", JStr("VW " \o src))>>)>>)),
            JItem("regdate", JInt(2015)),
            JItem("location", JDict(<<JItem("neighbourhood", JStr("Centro")), JItem("municipality", JStr("Campinas")),
                                      JItem("uf", JStr("SP"))>>)),
            JItem("priceStats", JDict(<<JItem("fipePrice", JInt(44000)), JItem("averagePrice", JStr("R$ 44.000"))>>)),
            JItem("phone", JDict(<<JItem("phone", JStr("1199999"))>>))>>)

\* An ad with a title and a price only.
SparseAd(src) ==
    JDict(<<JItem("title", JStr("Uno " \o src)), JItem("price", JStr("R$ 45.000")),
            JItem("abuyPriceRef", JDict(<<JItem("average_price", JInt(30500))>>))>>)

\* An ad whose user is null: user.get raises after the basic data was written.
NullUserAd(src) ==
    JDict(<<JItem("subject", JStr("Palio " \o src)), JItem("price", JInt(20000)), JItem("user", JNull)>>)

\* An ad whose phone is a string: phone_obj.get raises after everything else
\* was written.
StringPhoneAd(src) ==
    JDict(<<JItem("adId", JStr("77")), JItem("subject", JStr("Ka " \o src)),
            JItem("brand", JStr("Ford " \o src)), JItem("phone", JStr("1199999"))>>)

EmptyAd == JDict(<<>>)

Ads(src) == {FullAd(src), SparseAd(src), NullUserAd(src), StringPhoneAd(src), EmptyAd, JNull}

InitialPayloads ==
    {Payload("absent", JNull), Payload("invalid", JNull), Payload("ok", JDict(<<>>))}
    \cup {Payload("ok", JDict(<<JItem("ad", ad)>>)) : ad \in Ads("A")}

NextPayloads ==
    {Payload("absent", JNull), Payload("invalid", JNull), Payload("ok", JDict(<<>>))}
    \cup {Payload("ok", JDict(<<JItem("props", JDict(<<JItem("pageProps", JDict(<<JItem("ad", ad)>>))>>))>>)) :
            ad \in Ads("B")}

CssSamples ==
    { NoCss,
      Css(JStr("Fiat"), JStr(" R$ 43.900\n"),
          <<PriceBox(FALSE, FALSE, JStr("R$ 1")), PriceBox(TRUE, FALSE, JNull),
            PriceBox(TRUE, TRUE, JStr("R$ 41.000")), PriceBox(TRUE, TRUE, JStr("R$ 42.000")),
            PriceBox(TRUE, FALSE, JStr("R$ 9"))>>),
      Css(JStr(""), JNull, <<PriceBox(FALSE, TRUE, JStr("R$ 42.000"))>>) }

TurboResponses ==
    { TurboResponse(TRUE, 0, Payload("absent", JNull), Payload("absent", JNull), NoCss),
      TurboResponse(FALSE, HTTP_TOO_MANY, Payload("absent", JNull), Payload("absent", JNull), NoCss) }
    \cup { TurboResponse(FALSE, HTTP_OK, i, n, c) : i \in InitialPayloads, n \in NextPayloads, c \in CssSamples }

\* Faulty variant: the older payload is read whatever the newer one gave.
ConsultNextAlways(found) == TRUE

\* Line 197: the older payload is read only when the newer one gave no ad.

ConsultNext(found) == ~found

\* Faulty variant: the payload counts as found before it has been read.
FoundBeforeReading(r) == TRUE

\* Lines 189-191 and 204-206: json_found is set after extract_from_json returned.

Found(r) == ~r.raised

\* Lines 190 and 205: so is the provenance.
Tagged(r, tag) == IF r.raised THEN r.data ELSE [r.data EXCEPT !.origem_dados = JStr(tag)]

\* Line 202: the ad of the older payload; a .get on something that is no dict
\* raises.
NextProps(json) == JGetOr(json, "props", JDict(<<>>))

NextPageProps(json) == JGetOr(NextProps(json), "pageProps", JDict(<<>>))

NextAdRaises(json) == json.t # "dict" \/ NextProps(json).t # "dict" \/ NextPageProps(json).t # "dict"

NextAd(json) == JGetOr(NextPageProps(json), "ad", JDict(<<>>))

\* Lines 229-240: the price boxes, in order.
RECURSIVE CssPrices(_, _)
CssPrices(containers, d) ==
    IF containers = <<>> THEN d
    ELSE LET box == Head(containers)
             val == clean_text(box.val)
         IN IF box.val = JNull THEN CssPrices(Tail(containers), d)
            ELSE IF box.fipe /\ ~JTruthy(d.preco_fipe)
            THEN CssPrices(Tail(containers), [d EXCEPT !.preco_fipe = val])
            ELSE IF box.medio_olx /\ ~JTruthy(d.preco_medio_olx)
            THEN CssPrices(Tail(containers), [d EXCEPT !.preco_medio_olx = val])
            ELSE CssPrices(Tail(containers), d)

\* Lines 212-240: the CSS fallback on the record d.
CssFallback(css, found, d) ==
    LET d0 == IF ~found THEN [d EXCEPT !.origem_dados = JStr("HTML/CSS (Fallback)")] ELSE d
        d1 == IF ~JTruthy(d0.marca_veiculo) /\ css.marca # JNull
              THEN [d0 EXCEPT !.marca_veiculo = clean_text(css.marca)] ELSE d0
        d2 == IF ~JTruthy(d1.valor_anuncio) /\ css.valor # JNull
              THEN [d1 EXCEPT !.valor_anuncio = clean_text(css.valor)] ELSE d1
    IN IF ~JTruthy(d2.preco_medio_olx) \/ ~JTruthy(d2.preco_fipe) THEN CssPrices(css.containers, d2) ELSE d2

TurboLog(lvl, msg) == [lvl |-> lvl, msg |-> msg]

\* Nothing of the single-listing scraper is running.
NoTurbo ==
    /\ turbo_pc = "off"
    /\ turbo_url = ""
    /\ response = NoTurboResponse
    /\ data = BlankData
    /\ json_found = FALSE
    /\ consulted = <<>>
    /\ turbo_log = <<>>

----------------------------------------------------------------------------
\* The listing scraper (src/main.py).  A text is a sequence of pieces, each a
\* run of characters the code's searches never split: a word, a number, a
\* blank, a line break, a separator or one of the site's administrative
\* phrases.  A text holds no empty piece, so the empty text is <<>>.

NAME_MIN == 2
NAME_MAX == 50

Whitespace == {" ", "\n"}

\* The phrases _clean_name removes together with the rest of their line
AdminPhrases == {"Último acesso", "Conta verificada", "Na OLX desde"}

\* Names at the edges of the length test: one word of 50, 49, 2 and 3 letters
Name50 == "Autocentercomerciodeveiculosseminovoseusadosdosull"
Name49 == "Autocentercomerciodeveiculosseminovoseusadosdosul"
Name2 == "Jo"
Name3 == "Ana"

\* The words (runs of letters) of the pages below
Words ==
    { "Henrique", "Maria", "Silva", "Carlos", "Paula", "Entrar", "Anunciante", "Vendedor", "há", "dias",
      "hoje", "hora", Name50, Name49, Name2, Name3 }

\* Those of them that hold one of 'menu', 'buscar', 'chat', 'entrar'
MenuWords == {"Entrar"}

RECURSIVE Joined(_)
Joined(pieces) == IF pieces = <<>> THEN "" ELSE Head(pieces) \o Joined(Tail(pieces))

RECURSIVE Concat(_)
Concat(seqs) == IF seqs = <<>> THEN <<>> ELSE Head(seqs) \o Concat(Tail(seqs))

Reverse(pieces) == [i \in 1..Len(pieces) |-> pieces[Len(pieces) + 1 - i]]

RECURSIVE LStrip(_)
LStrip(pieces) ==
    IF pieces # <<>> /\ Head(pieces) \in Whitespace THEN LStrip(Tail(pieces)) ELSE pieces

\* str.strip()
Strip(pieces) == Reverse(LStrip(Reverse(LStrip(pieces))))

\* What precedes the first piece that is one of stops
RECURSIVE BeforeFirst(_, _)
BeforeFirst(pieces, stops) ==
    IF pieces = <<>> \/ Head(pieces) \in stops THEN <<>>
    ELSE <<Head(pieces)>> \o BeforeFirst(Tail(pieces), stops)

RECURSIVE JoinWith(_, _)
JoinWith(texts, separator) ==
    IF texts = <<>> THEN <<>>
    ELSE IF Len(texts) = 1 THEN texts[1]
    ELSE texts[1] \o separator \o JoinWith(Tail(texts), separator)

\* An element of the page: its kind is what the selectors tell apart ("span"
\* is span.typo-body-large.ad__sc-ypp2u2-4.TTTuh, "box" is the profile
\* container, "other" is anything else), strings are its text nodes in order.
Node(kind, strings) == [kind |-> kind, strings |-> strings]

\* The parsed page: its elements in document order, and what the extractors
\* of the model, the price and the reference price find on it.
Soup(nodes, modelo, valor, fipe) == [nodes |-> nodes, modelo |-> modelo, valor |-> valor, fipe |-> fipe]

\* soup.select(...)
Select(nodes, kind) == SelectSeq(nodes, LAMBDA n : n.kind = kind)

\* Tag.get_text(separator, strip)
get_text(strings, separator, strip) ==
    IF strip
    THEN JoinWith(SelectSeq([i \in 1..Len(strings) |-> Strip(strings[i])], LAMBDA t : t # <<>>),
                  separator)
    ELSE JoinWith(strings, separator)

\* _clean_name before str(): the three phrases and ' - ' go with the rest of
\* their line, then the first line is kept and stripped.
CleanPieces(raw_name) == Strip(BeforeFirst(raw_name, AdminPhrases \cup {" - ", "\n"}))

_clean_name(raw_name) == IF raw_name = <<>> THEN JNull ELSE JStr(Joined(CleanPieces(raw_name)))

\* nome and 2 < len(nome) < 50
NameOk(nome) == JTruthy(nome) /\ NAME_MIN < Len(nome.s) /\ Len(nome.s) < NAME_MAX

\* The first of the candidates that passes, None when none does: the for
\* loops of the first two attempts.
RECURSIVE FirstOk(_)
FirstOk(names) ==
    IF names = <<>> THEN JNull
    ELSE IF NameOk(Head(names)) THEN Head(names)
    ELSE FirstOk(Tail(names))

\* Attempt 1: the text of each element of the specific selector
SpecificNames(soup) ==
    LET elements == Select(soup.nodes, "span")
    IN [i \in 1..Len(elements) |-> _clean_name(get_text(elements[i].strings, <<>>, TRUE))]

\* Attempt 2: parts[0] of each profile container's text
ContainerNames(soup) ==
    LET profile_containers == Select(soup.nodes, "box")
    IN [i \in 1..Len(profile_containers) |->
           _clean_name(BeforeFirst(get_text(profile_containers[i].strings, <<" ", "|", " ">>, TRUE),
                                   {"|"}))]

\* The index of the first piece from i on that is not white space
RECURSIVE SkipSpaces(_, _)
SkipSpaces(pieces, i) ==
    IF i <= Len(pieces) /\ pieces[i] \in Whitespace THEN SkipSpaces(pieces, i + 1) ELSE i

IsWordAt(pieces, i) == i >= 1 /\ i <= Len(pieces) /\ pieces[i] \in Words

\* The first pattern tried at piece i: one word, or two with white space
\* between, then white space and 'Na OLX desde' or 'Último acesso'.
BeforePhraseAt(pieces, i) ==
    LET a == SkipSpaces(pieces, i + 1)
        b == SkipSpaces(pieces, a + 1)
        phrase(k) == k <= Len(pieces) /\ pieces[k] \in {"Na OLX desde", "Último acesso"}
    IN IF ~IsWordAt(pieces, i) \/ a = i + 1 THEN NoMatch
       ELSE IF IsWordAt(pieces, a) /\ b > a + 1 /\ phrase(b) THEN Match(SubSeq(pieces, i, a))
       ELSE IF phrase(a) THEN Match(<<pieces[i]>>)
       ELSE NoMatch

\* The second pattern tried at piece i: 'Conta verificada', white space, one
\* word, and a second one when it follows.
AfterVerifiedAt(pieces, i) ==
    LET a == SkipSpaces(pieces, i + 1)
        b == SkipSpaces(pieces, a + 1)
    IN IF i > Len(pieces) \/ pieces[i] # "Conta verificada" \/ a = i + 1 \/ ~IsWordAt(pieces, a)
       THEN NoMatch
       ELSE IF b > a + 1 /\ IsWordAt(pieces, b) THEN Match(SubSeq(pieces, a, b))
       ELSE Match(<<pieces[a]>>)

\* re.search: the match at the leftmost piece that has one
RECURSIVE SearchBeforePhrase(_, _)
SearchBeforePhrase(pieces, i) ==
    IF i > Len(pieces) THEN NoMatch
    ELSE IF BeforePhraseAt(pieces, i).matched THEN BeforePhraseAt(pieces, i)
    ELSE SearchBeforePhrase(pieces, i + 1)

RECURSIVE SearchAfterVerified(_, _)
SearchAfterVerified(pieces, i) ==
    IF i > Len(pieces) THEN NoMatch
    ELSE IF AfterVerifiedAt(pieces, i).matched THEN AfterVerifiedAt(pieces, i)
    ELSE SearchAfterVerified(pieces, i + 1)

\* any(x in nome.lower() for x in ['menu', 'buscar', 'chat', 'entrar'])
HasMenuWord(pieces) == \E i \in 1..Len(pieces) : pieces[i] \in MenuWords

\* What one pattern of attempt 3 gives: its cleaned group when the pattern
\* matches and the name passes both tests, None otherwise.
PatternName(found) ==
    IF found.matched /\ NameOk(_clean_name(found.group)) /\ ~HasMenuWord(CleanPieces(found.group))
    THEN _clean_name(found.group)
    ELSE JNull

\* Attempt 3: the two patterns over the text of the whole page
RegexNames(soup) ==
    LET all_text == get_text(Concat([i \in 1..Len(soup.nodes) |-> soup.nodes[i].strings]), <<" ">>, FALSE)
    IN <<PatternName(SearchBeforePhrase(all_text, 1)),
         PatternName(SearchAfterVerified(all_text, 1))>>

extract_vendor_name(soup) ==
    IF FirstOk(SpecificNames(soup)) # JNull THEN FirstOk(SpecificNames(soup))
    ELSE IF FirstOk(ContainerNames(soup)) # JNull THEN FirstOk(ContainerNames(soup))
    ELSE FirstOk(RegexNames(soup))

\* The record extract_data returns
Listing(nome, modelo, valor, fipe) ==
    [nome_vendedor |-> nome, modelo_veiculo |-> modelo, valor_anuncio |-> valor, preco_fipe |-> fipe]

NoListing == Listing(JNull, JNull, JNull, JNull)

LogRecord(lvl, msg) == [lvl |-> lvl, msg |-> msg]

\* Faulty variant: the reference price counts as essential too.
EveryField == <<"nome_vendedor", "modelo_veiculo", "valor_anuncio", "preco_fipe">>

\* essential_fields of extract_data and check_missing_data
EssentialFields == <<"nome_vendedor", "modelo_veiculo", "valor_anuncio">>

\* The generic selectors of extract_price_selenium (lines 609-613)
GENERIC_SELECTORS == 3

\* What the driver does for the official selectors and for each generic
\* selector of extract_price_selenium: it finds no price ("nothing"), finds
\* the price ("price"), or raises TimeoutException ("timeout"),
\* NoSuchElementException ("nosuch") or another WebDriverException, such as
\* StaleElementReferenceException from element.text ("stale").
Finds(official, generic, price) == [official |-> official, generic |-> generic, price |-> price]

NoFinds == Finds("nothing", [i \in 1..GENERIC_SELECTORS |-> "nothing"], JNull)

\* What a Selenium session comes to: no driver ("nodriver"), an exception
\* while loading ("timeout", "error"), or the rendered page ("page") with the
\* name the driver's own three attempts find on it (None when they find none)
\* and what the driver does for the price selectors.
Session(state, driver_name, soup) ==
    [state |-> state, driver_name |-> driver_name, soup |-> soup, finds |-> NoFinds]

DriverSession(driver_name, finds, soup) ==
    [state |-> "page", driver_name |-> driver_name, soup |-> soup, finds |-> finds]

NoSoup == Soup(<<>>, JNull, JNull, JNull)
NoSession == Session("none", JNull, NoSoup)

\* extract_vendor_name_selenium: the driver's attempts, then the parsed page
extract_vendor_name_selenium(driver_name, soup) ==
    IF JTruthy(driver_name) THEN driver_name ELSE extract_vendor_name(soup)

\* A call that returned a value, and one that raised.
PriceFound(v) == [raised |-> FALSE, value |-> v]

PriceRaised == [raised |-> TRUE, value |-> JNull]

\* Lines 615-628: the generic selectors from the i-th on, each in a try that
\* catches TimeoutException and NoSuchElementException, then extract_price(soup).
RECURSIVE GenericPrice(_, _, _)
GenericPrice(finds, soup, i) ==
    IF i > GENERIC_SELECTORS THEN PriceFound(soup.valor)
    ELSE IF finds.generic[i] = "price" THEN PriceFound(finds.price)
    ELSE IF finds.generic[i] \in {"nothing", "timeout", "nosuch"} THEN GenericPrice(finds, soup, i + 1)
    ELSE PriceRaised

\* Lines 586-628: the official selectors inside try/except Exception, then
\* the generic ones.
extract_price_selenium(finds, soup) ==
    IF finds.official = "price" THEN PriceFound(finds.price) ELSE GenericPrice(finds, soup, 1)

\* Lines 844-922: the record is built field by field inside one try; any
\* exception that reaches it gives the all-None record.
extract_data_selenium(s) ==
    IF s.state # "page" THEN NoListing
    ELSE IF extract_price_selenium(s.finds, s.soup).raised THEN NoListing
    ELSE Listing(extract_vendor_name_selenium(s.driver_name, s.soup), s.soup.modelo,
                 extract_price_selenium(s.finds, s.soup).value, s.soup.fipe)

\* any(data.get(field) for field in essential_fields)
AnyEssential(d) == \E i \in 1..Len(EssentialFields) : JTruthy(d[EssentialFields[i]])

\* What fetch_page returns: the parsed page ("soup"), or None on any failure
\* ("failed"); "none" before it is called.
Fetch(state, soup) == [state |-> state, soup |-> soup]
NoFetch == Fetch("none", NoSoup)

\* Lines 959-983 of extract_data, the requests path
ExtractFromSoup(f) ==
    IF f.state # "soup" THEN NoListing
    ELSE Listing(extract_vendor_name(f.soup), f.soup.modelo, f.soup.valor, f.soup.fipe)

\* sum(1 for v in data.values() if v is not None)
ExtractedCount(d) == Cardinality({f \in DOMAIN d : d[f] # JNull})

\* field.replace('_', ' ').title()
FieldTitle(field) ==
    CASE field = "nome_vendedor" -> "Nome Vendedor"
      [] field = "modelo_veiculo" -> "Modelo Veiculo"
      [] field = "valor_anuncio" -> "Valor Anuncio"
      [] OTHER -> "Preco Fipe"

missing_fields(d) == SelectSeq(EssentialFields, LAMBDA field : ~JTruthy(d[field]))

\* The pictographs that open the program's messages are left out of the
\* strings below.
check_missing_data(d) ==
    IF missing_fields(d) # <<>>
    THEN [flag |-> TRUE,
          log |-> <<LogRecord("warning", "Dados essenciais não encontrados: "
                                          \o Joined(JoinWith([i \in 1..Len(missing_fields(d)) |->
                                                                 <<missing_fields(d)[i]>>], <<", ">>))),
                    LogRecord("warning", "Isso pode indicar que a página usa conteúdo dinâmico (JavaScript)")>>,
          out |-> <<"AVISO: Alguns dados essenciais não foram encontrados:">>
                  \o [i \in 1..Len(missing_fields(d)) |-> "   - " \o FieldTitle(missing_fields(d)[i])]
                  \o <<"Isso pode indicar que a página usa conteúdo dinâmico (JavaScript).">>]
    ELSE [flag |-> FALSE,
          log |-> <<LogRecord("info", "Todos os dados essenciais foram encontrados com sucesso")>>,
          out |-> <<>>]

NotFoundMarker == "Não encontrado"
NotAvailableMarker == "Não disponível"

\* data.get(field) or marker
OrMarker(v, marker) == IF JTruthy(v) THEN v.s ELSE marker

\* Faulty variant: nothing is shown of a record that misses an essential field.
display_complete_only(d) ==
    IF missing_fields(d) # <<>> THEN <<>>
    ELSE << "DADOS DO ANÚNCIO",
            "Nome do Vendedor: " \o d.nome_vendedor.s,
            "Modelo do Veículo: " \o d.modelo_veiculo.s,
            "Valor do Anúncio: " \o d.valor_anuncio.s,
            "Preço FIPE: " \o OrMarker(d.preco_fipe, NotAvailableMarker) >>

display_results(d) ==
    << "DADOS DO ANÚNCIO",
       "Nome do Vendedor: " \o OrMarker(d.nome_vendedor, NotFoundMarker),
       "Modelo do Veículo: " \o OrMarker(d.modelo_veiculo, NotFoundMarker),
       "Valor do Anúncio: " \o OrMarker(d.valor_anuncio, NotFoundMarker),
       "Preço FIPE: " \o OrMarker(d.preco_fipe, NotAvailableMarker) >>

\* The URL of a listing: the characters of its scheme, the characters that
\* follow '://' up to the path, and the rest.
AdUrl(scheme, host, rest) == [scheme |-> scheme, host |-> host, rest |-> rest]

NoUrl == AdUrl(<<>>, <<>>, "")

UpperCase == <<"A", "B", "C", "D", "E", "F", "G", "H", "I", "J", "K", "L", "M",
               "N", "O", "P", "Q", "R", "S", "T", "U", "V", "W", "X", "Y", "Z">>

LowerCase == <<"a", "b", "c", "d", "e", "f", "g", "h", "i", "j", "k", "l", "m",
               "n", "o", "p", "q", "r", "s", "t", "u", "v", "w", "x", "y", "z">>

Digits == {"0", "1", "2", "3", "4", "5", "6", "7", "8", "9"}

\* re.IGNORECASE: a character and a letter of the pattern are compared in lower case.
Lower(c) == IF \E i \in DOMAIN UpperCase : UpperCase[i] = c
            THEN LowerCase[CHOOSE i \in DOMAIN UpperCase : UpperCase[i] = c]
            ELSE c

LowerAll(chars) == [i \in DOMAIN chars |-> Lower(chars[i])]

\* [a-z0-9-]
LabelChar(c) == Lower(c) \in {LowerCase[i] : i \in DOMAIN LowerCase} \cup Digits \cup {"-"}

\* olx\.com\.br
DomainText == <<"o", "l", "x", ".", "c", "o", "m", ".", "b", "r">>

\* The characters from position i on begin with olx.com.br ('.*' takes the rest).
DomainAt(chars, i) ==
    /\ Len(chars) >= i + Len(DomainText) - 1
    /\ \A j \in DOMAIN DomainText : Lower(chars[i + j - 1]) = DomainText[j]

\* Lines 1046-1069: `not url`, then ^https?://(?:[a-z0-9-]+\.)?olx\.com\.br.*
\* matched from the start of the URL.
validate_url(url) ==
    /\ url # NoUrl
    /\ LowerAll(url.scheme) \in {<<"h", "t", "t", "p">>, <<"h", "t", "t", "p", "s">>}
    /\ \/ DomainAt(url.host, 1)
       \/ \E n \in 1..Len(url.host) :
            /\ \A j \in 1..n : LabelChar(url.host[j])
            /\ Len(url.host) > n
            /\ url.host[n + 1] = "."
            /\ DomainAt(url.host, n + 2)

Http == <<"h", "t", "t", "p">>

Https == <<"h", "t", "t", "p", "s">>

AdUrls ==
    { NoUrl,
      AdUrl(Https, <<"w", "w", "w", ".">> \o DomainText, "/autos-e-pecas/gol-1457220451"),
      AdUrl(Https, <<"s", "p", ".">> \o DomainText, "/vi/1457220451"),
      AdUrl(Http, DomainText, ""),
      AdUrl(<<"H", "T", "T", "P", "S">>, <<"W", "W", "W", ".", "O", "L", "X", ".", "c", "o", "m", ".", "b", "r">>, "/vi/1457220451"),
      AdUrl(Https, <<"w", "w", "w", ".", "s", "p", ".">> \o DomainText, "/vi/1457220451"),
      AdUrl(Https, DomainText \o <<".", "e", "x", "a", "m", "p", "l", "e", ".", "o", "r", "g">>, "/"),
      AdUrl(Https, DomainText \o <<"x">>, "/vi/1457220451"),
      AdUrl(Https, <<"n", "o", "t">> \o DomainText, "/vi/1457220451"),
      AdUrl(<<"f", "t", "p">>, <<"w", "w", "w", ".">> \o DomainText, "/vi/1457220451"),
      AdUrl(Https, <<"w", "w", "w", ".", "e", "x", "a", "m", "p", "l", "e", ".", "o", "r", "g">>, "/olx.com.br") }

\* The element of the specific selector, when the page has one
SpanSamples ==
    { <<>>,
      <<Node("span", << <<"Henrique">> >>)>>,
      <<Node("span", << <<"2015">> >>)>>,
      <<Node("span", << <<Name2>> >>)>>,
      <<Node("span", << <<Name3>> >>)>>,
      <<Node("span", << <<Name50>> >>)>>,
      <<Node("span", << <<Name49>> >>)>>,
      <<Node("span", << <<"Henrique", "Último acesso", " ", "há", " ", "2", " ", "dias">> >>)>>,
      <<Node("span", << <<"Último acesso", " ", "hoje">> >>)>>,
      <<Node("span", << <<" ", "Maria", " - ", "Vendedor", "\n">> >>)>> }

\* The profile container, when the page has one
BoxSamples ==
    { <<>>,
      <<Node("box", <<>>)>>,
      <<Node("box", << <<"Maria", " ", "Silva">>, <<"Último acesso", " ", "há", " ", "1", " ", "hora">> >>)>>,
      <<Node("box", << <<Name2>>, <<"Na OLX desde", " ", "2019">> >>)>>,
      <<Node("box", << <<"2015">> >>)>>,
      <<Node("box", << <<"Conta verificada">>, <<"Paula">> >>)>> }

\* The rest of the page's text
OtherSamples ==
    { <<>>,
      <<Node("other", << <<"Carlos", " ", "Na OLX desde", " ", "2019">> >>)>>,
      <<Node("other", << <<"Conta verificada", " ", "Paula", " ", "Silva">> >>)>>,
      <<Node("other", << <<"Entrar", " ", "Último acesso">> >>)>>,
      <<Node("other", << <<"2015", " ", "Último acesso">> >>)>>,
      <<Node("other", << <<"Anunciante">> >>)>> }

\* The pages extract_vendor_name is tried on
VendorSoups ==
    { Soup(s \o b \o o, JNull, JNull, JNull) : s \in SpanSamples, b \in BoxSamples, o \in OtherSamples }

\* The pages of a run of main()
MainSoups ==
    { Soup(s, m, v, f) : s \in {<<>>, <<Node("span", << <<"Henrique">> >>)>>},
                         m \in {JNull, JStr("Gol 1.0")}, v \in {JNull, JStr("R$ 45.000")},
                         f \in {JNull, JStr("R$ 47.123")} }

Sessions ==
    { Session(st, JNull, NoSoup) : st \in {"nodriver", "timeout", "error"} }
    \cup { Session("page", dn, s) : dn \in {JNull, JStr("Henrique")}, s \in MainSoups }

Fetches == {Fetch("failed", NoSoup)} \cup { Fetch("soup", s) : s \in MainSoups }

\* The records check_missing_data and display_results are tried on: each
\* field None, empty or a value.
Listings ==
    { Listing(n, m, v, f) : n \in {JNull, JStr(""), JStr("Henrique")},
                            m \in {JNull, JStr(""), JStr("Gol 1.0")},
                            v \in {JNull, JStr(""), JStr("R$ 45.000")},
                            f \in {JNull, JStr(""), JStr("R$ 47.123")} }

\* Nothing of the listing scraper is running.
NoMain ==
    /\ scrape_pc = "off"
    /\ scrape_url = NoUrl
    /\ SELENIUM_AVAILABLE = FALSE
    /\ session = NoSession
    /\ page_fetch = NoFetch
    /\ record = NoListing
    /\ has_missing = FALSE
    /\ stdout = <<>>
    /\ scrape_log = <<>>

\* The crawl runs alone.
CrawlOnly == NoParse /\ NoTurbo /\ NoMain

----------------------------------------------------------------------------
\* The pages the model keeps a future for.
Tracked == DOMAIN fstate

\* Inputs of the crawl specification.
StartUrls ==
    { EmptyUrl,
      Url("www.olx.com.br", "/autos-e-pecas/carros", << <<"q", "gol">> >>, ""),
      Url("www.olx.com.br", "/autos-e-pecas/carros", << <<"o", "2">>, <<"q", "gol">>, <<"sf", "">> >>, "top") }

CrawlPagesArgs == {0, 1, 2}

CrawlTotals == {0, ADS_PER_PAGE * (MaxCrawlPages - 1) + 1}

Page1Responses ==
    { Response(TRUE, 0, FALSE, {}, 0),
      Response(FALSE, HTTP_TOO_MANY, TRUE, Links, 0),
      Response(FALSE, HTTP_OK, FALSE, {}, 0) }
    \cup { Response(FALSE, HTTP_OK, TRUE, S, t) : S \in SUBSET Links, t \in CrawlTotals }

WorkerResponses ==
    { Response(TRUE, 0, FALSE, {}, 0),
      Response(FALSE, HTTP_TOO_MANY, TRUE, Links, 0),
      Response(FALSE, HTTP_OK, FALSE, {}, 0) }
    \cup { Response(FALSE, HTTP_OK, TRUE, S, 0) : S \in SUBSET Links }

Blank(url, pages) ==
    /\ start_url = url
    /\ args_pages = pages
    /\ page1_resp = NoResponse
    /\ page1_links = {}
    /\ total_ads = 0
    /\ total_pages = 1
    /\ all_links = {}
    /\ pages_to_fetch = {}
    /\ future_to_page = [p \in AllPages |-> EmptyUrl]
    /\ fstate = [p \in AllPages |-> "none"]
    /\ resp = [p \in AllPages |-> NoResponse]
    /\ result = [p \in AllPages |-> {}]
    /\ yielded = {}
    /\ processed = 0
    /\ progress = <<>>
    /\ nreq = [p \in AllPages |-> 0]
    /\ log = <<>>
    /\ outfile = NoFile

Init ==
    /\ pc = "start"
    /\ \E url \in StartUrls, pages \in CrawlPagesArgs : Blank(url, pages)
    /\ CrawlOnly

\* main, lines 245-254: an empty URL returns at once.
Start ==
    /\ pc = "start"
    /\ IF start_url = EmptyUrl
       THEN /\ pc' = "returned"
            /\ UNCHANGED log
       ELSE /\ pc' = "page1"
            /\ log' = StartLog
    /\ all_links' = {}
    /\ UNCHANGED <<start_url, args_pages, page1_resp, page1_links, total_ads, total_pages,
                   pages_to_fetch, future_to_page, fstate, resp, result, yielded,
                   processed, progress, nreq, outfile>>
    /\ UNCHANGED beyond_crawl

\* main, lines 256-271: the request for page 1 and its parse.
FirstPage ==
    /\ pc = "page1"
    /\ \E r \in Page1Responses :
        /\ page1_resp' = r
        /\ nreq' = [nreq EXCEPT ![1] = @ + 1]
        /\ IF FirstPageFatal(r)
           THEN /\ pc' = "aborted"
                /\ log' = log \o <<LogRec("INFO", "Analisando pagina 1", 0),
                                   LogRec("ERROR", IF r.raised THEN "Erro conexao" ELSE "Erro status", r.status)>>
                /\ UNCHANGED <<page1_links, total_ads, all_links>>
           ELSE IF ~r.parses
           THEN /\ pc' = "crashed"
                /\ log' = log \o <<LogRec("INFO", "Analisando pagina 1", 0)>>
                /\ UNCHANGED <<page1_links, total_ads, all_links>>
           ELSE /\ pc' = "plan"
                /\ page1_links' = r.links
                /\ total_ads' = r.total
                /\ all_links' = all_links \cup r.links
                /\ log' = log \o <<LogRec("INFO", "Analisando pagina 1", 0),
                                   LogRec("INFO", "Pagina 1 processada", Cardinality(r.links))>>
    /\ UNCHANGED <<start_url, args_pages, total_pages, pages_to_fetch, future_to_page,
                   fstate, resp, result, yielded, processed, progress, outfile>>
    /\ UNCHANGED beyond_crawl

\* main, lines 274-288.
Plan ==
    /\ pc = "plan"
    /\ total_pages' = PlanPages(args_pages, total_ads)
    /\ log' = log \o PlanLog(args_pages, total_ads, PlanPages(args_pages, total_ads))
    /\ pc' = "dispatch"
    /\ UNCHANGED <<start_url, args_pages, page1_resp, page1_links, total_ads, all_links,
                   pages_to_fetch, future_to_page, fstate, resp, result, yielded,
                   processed, progress, nreq, outfile>>
    /\ UNCHANGED beyond_crawl

\* main, lines 291-298: every page of the range is submitted to the pool before
\* the loop over as_completed starts.
Dispatch ==
    /\ pc = "dispatch"
    /\ total_pages > 1
    /\ PagesToFetch(total_pages) \subseteq Tracked
    /\ pages_to_fetch' = PagesToFetch(total_pages)
    /\ log' = log \o <<LogRec("INFO", "Baixando paginas restantes", Cardinality(PagesToFetch(total_pages)))>>
    /\ future_to_page' = [p \in Tracked |-> IF p \in PagesToFetch(total_pages)
                                             THEN get_page_url(start_url, p) ELSE future_to_page[p]]
    /\ fstate' = [p \in Tracked |-> IF p \in PagesToFetch(total_pages) THEN "pending" ELSE fstate[p]]
    /\ processed' = 0
    /\ pc' = "crawl"
    /\ UNCHANGED <<start_url, args_pages, page1_resp, page1_links, total_ads, total_pages,
                   all_links, resp, result, yielded, progress, nreq, outfile>>
    /\ UNCHANGED beyond_crawl

\* main, line 291: a one-page plan skips the loop.
NoDispatch ==
    /\ pc = "dispatch"
    /\ ~(total_pages > 1)
    /\ pc' = "summary"
    /\ UNCHANGED <<start_url, args_pages, page1_resp, page1_links, total_ads, total_pages,
                   all_links, pages_to_fetch, future_to_page, fstate, resp, result, yielded,
                   processed, progress, nreq, log, outfile>>
    /\ UNCHANGED beyond_crawl

\* A pool thread takes the oldest pending call off the executor's queue; the
\* pool never runs more than MAX_WORKERS calls at once.
Running == {p \in Tracked : fstate[p] = "running"}

Pending == {p \in Tracked : fstate[p] = "pending"}

\* Faulty variant: a pool that starts a thread for every call.
WorkerFreeAlways == TRUE

\* ThreadPoolExecutor(max_workers=MAX_WORKERS): a call starts only while fewer
\* than MAX_WORKERS calls are running.

WorkerFree == Cardinality(Running) < MAX_WORKERS

WorkerStart(p) ==
    /\ pc = "crawl"
    /\ p \in Pending
    /\ \A q \in Pending : p <= q
    /\ WorkerFree
    /\ fstate' = [fstate EXCEPT ![p] = "running"]
    /\ UNCHANGED <<pc, start_url, args_pages, page1_resp, page1_links, total_ads, total_pages,
                   all_links, pages_to_fetch, future_to_page, resp, result, yielded,
                   processed, progress, nreq, log, outfile>>
    /\ UNCHANGED beyond_crawl

\* fetch_page, lines 219-230: one request to the URL the call was submitted with;
\* whatever it meets, the call returns and the future finishes.
FetchPage(p) ==
    /\ pc = "crawl"
    /\ fstate[p] = "running"
    /\ \E r \in WorkerResponses :
        /\ resp' = [resp EXCEPT ![p] = r]
        /\ result' = [result EXCEPT ![p] = fetch_page(r)]
    /\ nreq' = [nreq EXCEPT ![p] = @ + 1]
    /\ fstate' = [fstate EXCEPT ![p] = "finished"]
    /\ UNCHANGED <<pc, start_url, args_pages, page1_resp, page1_links, total_ads, total_pages,
                   all_links, pages_to_fetch, future_to_page, yielded, processed, progress,
                   log, outfile>>
    /\ UNCHANGED beyond_crawl

\* main, lines 299-307: one turn of the loop over as_completed, for a finished
\* future it has not yielded yet.
Consume(p) ==
    /\ pc = "crawl"
    /\ ~Exhausted
    /\ p \in pages_to_fetch \ yielded
    /\ fstate[p] = "finished"
    /\ yielded' = yielded \cup {p}
    /\ processed' = processed + 1
    /\ all_links' = Merge(all_links, result[p])
    /\ progress' = <<processed + 1, Cardinality(pages_to_fetch), Cardinality(Merge(all_links, result[p]))>>
    /\ UNCHANGED <<pc, start_url, args_pages, page1_resp, page1_links, total_ads, total_pages,
                   pages_to_fetch, future_to_page, fstate, resp, result, nreq, log, outfile>>
    /\ UNCHANGED beyond_crawl

\* The loop ends when as_completed is exhausted; leaving the with block waits
\* for the pool to shut down.
LoopExit ==
    /\ pc = "crawl"
    /\ Exhausted
    /\ \A p \in Tracked : fstate[p] \in {"none", "finished"}
    /\ pc' = "summary"
    /\ UNCHANGED <<start_url, args_pages, page1_resp, page1_links, total_ads, total_pages,
                   all_links, pages_to_fetch, future_to_page, fstate, resp, result, yielded,
                   processed, progress, nreq, log, outfile>>
    /\ UNCHANGED beyond_crawl

\* main, lines 309-320: the summary and the output file.
Summarize ==
    /\ pc = "summary"
    /\ log' = log \o <<LogRec("INFO", "FIM DO PROCESSO", 0),
                       LogRec("INFO", "TOTAL FINAL", Cardinality(all_links)),
                       LogRec("INFO", "Arquivo salvo", 0)>>
    /\ outfile' = File(TRUE, sorted(all_links))
    /\ pc' = "done"
    /\ UNCHANGED <<start_url, args_pages, page1_resp, page1_links, total_ads, total_pages,
                   all_links, pages_to_fetch, future_to_page, fstate, resp, result, yielded,
                   processed, progress, nreq>>
    /\ UNCHANGED beyond_crawl

Next ==
    \/ Start
    \/ FirstPage
    \/ Plan
    \/ Dispatch
    \/ NoDispatch
    \/ \E p \in Tracked : WorkerStart(p)
    \/ \E p \in Tracked : FetchPage(p)
    \/ \E p \in Tracked : Consume(p)
    \/ LoopExit
    \/ Summarize

Spec == Init /\ [][Next]_vars

\* The same program with the scheduling the runtime gives it: pool threads and
\* the main thread keep running, and every request ends (it has a timeout).
FairSpec == Init /\ [][Next]_vars /\ WF_vars(Next)

----------------------------------------------------------------------------
\* The page-count decision on its own, over every detected total up to MaxTotal
\* and every -p value up to MaxPagesArg: the state after page 1 was processed.
PlanPagesArgs == ((-2)..2) \cup ((OLX_PAGE_LIMIT - 1)..MaxPagesArg)

PlanInit ==
    /\ pc = "plan"
    /\ start_url = Url("www.olx.com.br", "/autos-e-pecas/carros", <<>>, "")
    /\ args_pages \in PlanPagesArgs
    /\ total_ads \in 0..MaxTotal
    /\ page1_resp = Response(FALSE, HTTP_OK, TRUE, {}, total_ads)
    /\ page1_links = {}
    /\ total_pages = 1
    /\ all_links = {}
    /\ pages_to_fetch = {}
    /\ future_to_page = [p \in AllPages |-> EmptyUrl]
    /\ fstate = [p \in AllPages |-> "none"]
    /\ resp = [p \in AllPages |-> NoResponse]
    /\ result = [p \in AllPages |-> {}]
    /\ yielded = {}
    /\ processed = 0
    /\ progress = <<>>
    /\ nreq = [p \in AllPages |-> IF p = 1 THEN 1 ELSE 0]
    /\ log = Page1Log(0)
    /\ outfile = NoFile
    /\ CrawlOnly

PlanSpec == PlanInit /\ [][Plan]_vars

----------------------------------------------------------------------------
\* The crawl with plans larger than the pool: -p is MaxPoolPages - 1 or
\* MaxPoolPages, page 1 answers with one link, and a worker's request either
\* fails or brings one link.
PoolPagesArgs == {MaxPoolPages - 1, MaxPoolPages}

PoolPage1Responses == { Response(FALSE, HTTP_OK, TRUE, {1}, 0) }

PoolWorkerResponses ==
    { Response(TRUE, 0, FALSE, {}, 0), Response(FALSE, HTTP_OK, TRUE, {MaxLinks}, 0) }

PoolInit ==
    /\ pc = "start"
    /\ start_url = Url("www.olx.com.br", "/autos-e-pecas/carros", << <<"q", "gol">> >>, "")
    /\ args_pages \in PoolPagesArgs
    /\ page1_resp = NoResponse
    /\ page1_links = {}
    /\ total_ads = 0
    /\ total_pages = 1
    /\ all_links = {}
    /\ pages_to_fetch = {}
    /\ future_to_page = [p \in PoolPages |-> EmptyUrl]
    /\ fstate = [p \in PoolPages |-> "none"]
    /\ resp = [p \in PoolPages |-> NoResponse]
    /\ result = [p \in PoolPages |-> {}]
    /\ yielded = {}
    /\ processed = 0
    /\ progress = <<>>
    /\ nreq = [p \in PoolPages |-> 0]
    /\ log = <<>>
    /\ outfile = NoFile
    /\ CrawlOnly

PoolNext ==
    \/ Start
    \/ FirstPage /\ page1_resp' \in PoolPage1Responses
    \/ Plan
    \/ Dispatch
    \/ \E p \in Tracked : WorkerStart(p)
    \/ \E p \in Tracked : FetchPage(p) /\ resp'[p] \in PoolWorkerResponses
    \/ \E p \in Tracked : Consume(p)
    \/ LoopExit
    \/ Summarize

PoolSpec == PoolInit /\ [][PoolNext]_vars

----------------------------------------------------------------------------
\* The crawl up to the submission of the page URLs, for every base URL whose
\* query has at most MaxQueryLen parameters: the page parameter o or another
\* one, with a blank, a numeric or a textual value, with or without a fragment.
QueryPairs == {<<k, v>> : k \in {"o", "q"}, v \in {"", "2", "gol"}}

Queries == UNION {[1..n -> QueryPairs] : n \in 0..MaxQueryLen}

QueryUrls ==
    {Url("www.olx.com.br", "/autos-e-pecas/carros", q, f) : q \in Queries, f \in {"", "top"}}

UrlInit ==
    /\ pc = "start"
    /\ \E url \in QueryUrls, pages \in 2..MaxCrawlPages : Blank(url, pages)
    /\ CrawlOnly

UrlNext ==
    \/ Start
    \/ FirstPage /\ page1_resp' \in PoolPage1Responses
    \/ Plan
    \/ Dispatch

UrlSpec == UrlInit /\ [][UrlNext]_vars

\* main of coletor_links.py, lines 232-271, up to the request for page 1,
\* started with no URL, with marketplace URLs and with URLs of other hosts.
EntryHosts == {"www.olx.com.br", "sp.olx.com.br", "www.example.org", "olx.com.br.example.org"}

EntryUrls ==
    {EmptyUrl} \cup {Url(h, path, <<>>, "") : h \in EntryHosts, path \in {"/autos-e-pecas/carros", "/busca"}}

EntryInit ==
    /\ pc = "start"
    /\ \E url \in EntryUrls, pages \in {0, MaxCrawlPages} : Blank(url, pages)
    /\ CrawlOnly

EntryNext ==
    \/ Start
    \/ FirstPage

EntrySpec == EntryInit /\ [][EntryNext]_vars

----------------------------------------------------------------------------
\* The crawl is not running.
NoCrawl == pc = "off" /\ Blank(EmptyUrl, 0)

ParseInit ==
    /\ NoCrawl
    /\ NoTurbo
    /\ NoMain
    /\ \E n \in NextDataSamples, a \in AnchorSamples, c \in CandidateSamples, p \in PagSamples,
          t \in TitleSamples, d \in DescriptionSamples, r \in RawSamples :
            content = PageContent(n, a, c, p, t, d, r)
    /\ parsed = NotParsed

ParseData ==
    /\ parsed.state = "none"
    /\ content # NoContent
    /\ parsed' = parse_data(content)
    /\ UNCHANGED <<crawl_vars, turbo_vars, main_vars, content>>

ParseSpec == ParseInit /\ [][ParseData]_vars

\* find_deep_total on a structure of nested dicts and lists.
DeepLeaves ==
    { JInt(0), JInt(-1), JInt(7), JFloat(2), JText(<<"1", "2">>), JText(<<"0">>), JStr("muitos"), JNull }

DeepInner ==
    { JDict(<<JItem(k, v)>>) : k \in {"total", "nome"}, v \in DeepLeaves }
    \cup { JList(<<JDict(<<JItem("totalAdCount", v)>>), JInt(4), JDict(<<JItem("totalCount", w)>>)>>) :
             v, w \in {JInt(0), JInt(9), JText(<<"3">>)} }

DeepTrees ==
    { JDict(<<JItem(k1, a), JItem(k2, b)>>) :
        k1 \in {"totalAdsFound", "pagination", "dados"}, k2 \in {"totalCount", "meta"},
        a \in DeepLeaves \cup DeepInner,
        b \in {JInt(5), JText(<<"0">>), JDict(<<JItem("total", JInt(8))>>), JList(<<JInt(8)>>)} }
    \cup { JList(<<a, b>>) : a \in DeepInner, b \in {JInt(5), JDict(<<JItem("total", JInt(8))>>)} }
    \cup DeepLeaves

DeepInit ==
    /\ NoCrawl
    /\ NoTurbo
    /\ NoMain
    /\ \E tree \in DeepTrees :
        content = [NoContent EXCEPT !.next_data = NextData("ok", tree)]
    /\ parsed = NotParsed

\* The call of line 154, find_deep_total(props), and what it returns.
FindDeepTotal ==
    /\ parsed.state = "none"
    /\ \E r \in {find_deep_total(content.next_data.props)} :
        parsed' = [state |-> IF r.some THEN "int" ELSE "None", links |-> {}, total |-> r.val]
    /\ UNCHANGED <<crawl_vars, turbo_vars, main_vars, content>>

DeepSpec == DeepInit /\ [][FindDeepTotal]_vars

----------------------------------------------------------------------------
\* extract_data_turbo (src/main_fast.py), called with a URL.
TurboInit ==
    /\ NoCrawl
    /\ NoParse
    /\ NoMain
    /\ turbo_pc = "start"
    /\ turbo_url \in TurboUrls
    /\ response = NoTurboResponse
    /\ data = BlankData
    /\ json_found = FALSE
    /\ consulted = <<>>
    /\ turbo_log = <<>>

\* Lines 142-179: the record, the URL searches and the request.
TurboRequest ==
    /\ turbo_pc = "start"
    /\ data' = DataFromUrl(turbo_url)
    /\ json_found' = FALSE
    /\ \E r \in TurboResponses :
        /\ response' = r
        /\ IF r.raised
           THEN /\ turbo_log' = turbo_log \o <<TurboLog("INFO", "Conectando"), TurboLog("ERROR", "Erro Critico")>>
                /\ turbo_pc' = "returned"
           ELSE IF r.status_code # HTTP_OK
           THEN /\ turbo_log' = turbo_log \o <<TurboLog("INFO", "Conectando"), TurboLog("ERROR", "Erro HTTP")>>
                /\ turbo_pc' = "returned"
           ELSE /\ turbo_log' = turbo_log \o <<TurboLog("INFO", "Conectando")>>
                /\ turbo_pc' = "A"
    /\ UNCHANGED <<crawl_vars, parse_vars, main_vars, turbo_url, consulted>>

\* Lines 183-194: strategy A, #initial-data.
StrategyA ==
    /\ turbo_pc = "A"
    /\ consulted' = Append(consulted, "#initial-data")
    /\ LET tag == response.initial_data
       IN IF tag.kind = "absent" THEN UNCHANGED <<data, json_found, turbo_log>>
          ELSE IF tag.kind = "invalid"
          THEN /\ turbo_log' = Append(turbo_log, TurboLog("WARNING", "Erro parser Initial Data"))
               /\ UNCHANGED <<data, json_found>>
          ELSE IF ~JHas(tag.json, "ad") THEN UNCHANGED <<data, json_found, turbo_log>>
          ELSE \E r \in {extract_from_json(JGet(tag.json, "ad"), data)} :
               /\ data' = Tagged(r, "JSON (Initial Data)")
               /\ json_found' = Found(r)
               /\ turbo_log' = Append(turbo_log, IF r.raised THEN TurboLog("WARNING", "Erro parser Initial Data")
                                                 ELSE TurboLog("INFO", "Dados extraidos de #initial-data"))
    /\ turbo_pc' = "B"
    /\ UNCHANGED <<crawl_vars, parse_vars, main_vars, turbo_url, response>>

\* Lines 197-209: strategy B, #__NEXT_DATA__.
StrategyB ==
    /\ turbo_pc = "B"
    /\ IF ~ConsultNext(json_found) THEN UNCHANGED <<data, json_found, consulted, turbo_log>>
       ELSE /\ consulted' = Append(consulted, "#__NEXT_DATA__")
            /\ LET tag == response.next_data
               IN IF tag.kind = "absent" THEN UNCHANGED <<data, json_found, turbo_log>>
                  ELSE IF tag.kind = "invalid" \/ NextAdRaises(tag.json)
                  THEN /\ turbo_log' = Append(turbo_log, TurboLog("WARNING", "Erro parser Next Data"))
                       /\ UNCHANGED <<data, json_found>>
                  ELSE IF ~JTruthy(NextAd(tag.json)) THEN UNCHANGED <<data, json_found, turbo_log>>
                  ELSE \E r \in {extract_from_json(NextAd(tag.json), data)} :
                       /\ data' = Tagged(r, "JSON (Next Data)")
                       /\ json_found' = Found(r)
                       /\ turbo_log' = Append(turbo_log, IF r.raised THEN TurboLog("WARNING", "Erro parser Next Data")
                                                         ELSE TurboLog("INFO", "Dados extraidos de #__NEXT_DATA__"))
    /\ turbo_pc' = "C"
    /\ UNCHANGED <<crawl_vars, parse_vars, main_vars, turbo_url, response>>

\* Lines 212-242: strategy C, the CSS fallback, and the return.
StrategyC ==
    /\ turbo_pc = "C"
    /\ IF ~json_found \/ ~JTruthy(data.marca_veiculo) \/ ~JTruthy(data.preco_medio_olx)
       THEN /\ consulted' = Append(consulted, "CSS")
            /\ turbo_log' = Append(turbo_log, TurboLog("INFO", "Complementando com Fallback CSS"))
            /\ data' = CssFallback(response.css, json_found, data)
       ELSE UNCHANGED <<data, consulted, turbo_log>>
    /\ turbo_pc' = "returned"
    /\ UNCHANGED <<crawl_vars, parse_vars, main_vars, turbo_url, response, json_found>>

TurboNext == TurboRequest \/ StrategyA \/ StrategyB \/ StrategyC

TurboSpec == TurboInit /\ [][TurboNext]_vars

----------------------------------------------------------------------------
\* main() of src/main.py, run with a URL.
MainInit ==
    /\ NoCrawl
    /\ NoParse
    /\ NoTurbo
    /\ scrape_pc = "start"
    /\ scrape_url \in AdUrls
    /\ SELENIUM_AVAILABLE \in BOOLEAN
    /\ session = NoSession
    /\ page_fetch = NoFetch
    /\ record = NoListing
    /\ has_missing = FALSE
    /\ stdout = <<>>
    /\ scrape_log = <<>>

\* Lines 1091-1116: the URL is read and validated.
MainStart ==
    /\ scrape_pc = "start"
    /\ IF scrape_url = NoUrl
       THEN /\ stdout' = stdout \o <<"Erro: URL não fornecida.">>
            /\ scrape_pc' = "exit1"
            /\ UNCHANGED scrape_log
       ELSE IF ~validate_url(scrape_url)
       THEN /\ scrape_log' = scrape_log \o <<LogRecord("error", "URL inválida ou não é do OLX")>>
            /\ stdout' = stdout \o <<"Erro: URL inválida ou não é do OLX",
                                     "   A URL deve começar com https://www.olx.com.br ou https://sp.olx.com.br">>
            /\ scrape_pc' = "exit1"
       ELSE /\ scrape_log' = scrape_log \o <<LogRecord("info", "Iniciando processamento do anúncio")>>
            /\ stdout' = stdout \o <<"Buscando dados do anúncio", "Aguarde...">>
            /\ scrape_pc' = "extract"
    /\ UNCHANGED <<crawl_vars, parse_vars, turbo_vars, scrape_url, SELENIUM_AVAILABLE, session,
                   page_fetch, record, has_missing>>

\* extract_data, lines 946-955: the Selenium attempt.
SeleniumAttempt(s) ==
    /\ scrape_pc = "extract"
    /\ SELENIUM_AVAILABLE
    /\ session' = s
    /\ IF AnyEssential(extract_data_selenium(s))
       THEN /\ record' = extract_data_selenium(s)
            /\ scrape_log' = scrape_log \o
                   <<LogRecord("info", "Tentando extração com Selenium (método recomendado)...")>>
            /\ scrape_pc' = "check"
       ELSE /\ scrape_log' = scrape_log \o
                   <<LogRecord("info", "Tentando extração com Selenium (método recomendado)..."),
                     LogRecord("warning", "Selenium não conseguiu extrair dados essenciais. Tentando fallback com requests...")>>
            /\ scrape_pc' = "fallback"
            /\ UNCHANGED record
    /\ UNCHANGED <<crawl_vars, parse_vars, turbo_vars, scrape_url, SELENIUM_AVAILABLE, page_fetch,
                   has_missing, stdout>>

ExtractSelenium == \E s \in Sessions : SeleniumAttempt(s)

\* extract_data, lines 958-983: the requests path, taken without Selenium or
\* after a Selenium attempt that found no essential field.
ExtractRequests ==
    /\ scrape_pc = "fallback" \/ (scrape_pc = "extract" /\ ~SELENIUM_AVAILABLE)
    /\ \E f \in Fetches :
        /\ page_fetch' = f
        /\ record' = ExtractFromSoup(f)
        /\ scrape_log' = scrape_log \o
               <<LogRecord("info", "Usando método fallback (requests + BeautifulSoup)...")>> \o
               (IF f.state # "soup"
                THEN <<LogRecord("error", "Não foi possível obter o HTML da página. Abortando extração.")>>
                ELSE <<LogRecord("info", "Extraindo dados individuais..."),
                       LogRecord("info", "Extração concluída. " \o ToString(ExtractedCount(ExtractFromSoup(f)))
                                         \o "/4 campos extraídos com sucesso.")>>)
    /\ scrape_pc' = "check"
    /\ UNCHANGED <<crawl_vars, parse_vars, turbo_vars, scrape_url, SELENIUM_AVAILABLE, session,
                   has_missing, stdout>>

\* Line 1123: has_missing = check_missing_data(data)
CheckMissingData ==
    /\ scrape_pc = "check"
    /\ has_missing' = check_missing_data(record).flag
    /\ scrape_log' = scrape_log \o check_missing_data(record).log
    /\ stdout' = stdout \o check_missing_data(record).out
    /\ scrape_pc' = "display"
    /\ UNCHANGED <<crawl_vars, parse_vars, turbo_vars, scrape_url, SELENIUM_AVAILABLE, session,
                   page_fetch, record>>

\* Line 1126: display_results(data)
DisplayResults ==
    /\ scrape_pc = "display"
    /\ stdout' = stdout \o display_results(record)
    /\ scrape_pc' = "finish"
    /\ UNCHANGED <<crawl_vars, parse_vars, turbo_vars, scrape_url, SELENIUM_AVAILABLE, session,
                   page_fetch, record, has_missing, scrape_log>>

\* Lines 1128-1136: the closing message.
Finish ==
    /\ scrape_pc = "finish"
    /\ IF has_missing
       THEN /\ scrape_log' = scrape_log \o <<LogRecord("info", "Processamento concluído com dados faltando")>>
            /\ stdout' = stdout \o <<"Dica: Se os dados não aparecerem, a página pode estar usando JavaScript.">>
       ELSE /\ scrape_log' = scrape_log \o
                   <<LogRecord("info", "Processamento concluído com sucesso - todos os dados essenciais encontrados")>>
            /\ UNCHANGED stdout
    /\ scrape_pc' = "done"
    /\ UNCHANGED <<crawl_vars, parse_vars, turbo_vars, scrape_url, SELENIUM_AVAILABLE, session,
                   page_fetch, record, has_missing>>

MainNext == MainStart \/ ExtractSelenium \/ ExtractRequests \/ CheckMissingData \/ DisplayResults \/ Finish

MainSpec == MainInit /\ [][MainNext]_vars

\* main() is one sequential thread: a statement that can run does run.
FairMainSpec == MainSpec /\ WF_vars(MainNext)

\* check_missing_data and display_results, as main() calls them, on a record.
CheckInit ==
    /\ NoCrawl
    /\ NoParse
    /\ NoTurbo
    /\ scrape_pc = "check"
    /\ scrape_url = NoUrl
    /\ SELENIUM_AVAILABLE = FALSE
    /\ session = NoSession
    /\ page_fetch = NoFetch
    /\ record \in Listings
    /\ has_missing = FALSE
    /\ stdout = <<>>
    /\ scrape_log = <<>>

CheckNext == CheckMissingData \/ DisplayResults \/ Finish

CheckSpec == CheckInit /\ [][CheckNext]_vars

\* extract_data (lines 932-983) on a rendered page, with every behaviour of
\* the driver for the price selectors.
PriceOutcomes == {"nothing", "price", "timeout", "nosuch", "stale"}

DriverFinds ==
    { Finds(o, g, JStr("R$ 44.900")) : o \in {"nothing", "price", "stale"},
                                       g \in [1..GENERIC_SELECTORS -> PriceOutcomes] }

DriverSoups == { Soup(<<>>, m, v, JNull) : m \in {JNull, JStr("Gol 1.0")}, v \in {JNull, JStr("R$ 45.000")} }

DriverSessions ==
    { DriverSession(dn, f, s) : dn \in {JNull, JStr("Henrique")}, f \in DriverFinds, s \in DriverSoups }

DriverFetches == { Fetch("failed", NoSoup), Fetch("soup", Soup(<<>>, JNull, JStr("R$ 45.000"), JNull)) }

DriverInit ==
    /\ NoCrawl
    /\ NoParse
    /\ NoTurbo
    /\ scrape_pc = "extract"
    /\ scrape_url = AdUrl(Https, <<"s", "p", ".">> \o DomainText, "/vi/1457220451")
    /\ SELENIUM_AVAILABLE = TRUE
    /\ session = NoSession
    /\ page_fetch = NoFetch
    /\ record = NoListing
    /\ has_missing = FALSE
    /\ stdout = <<>>
    /\ scrape_log = <<>>

DriverNext ==
    \/ \E s \in DriverSessions : SeleniumAttempt(s)
    \/ ExtractRequests /\ page_fetch' \in DriverFetches
    \/ CheckMissingData

DriverSpec == DriverInit /\ [][DriverNext]_vars

\* extract_vendor_name on a parsed page.
VendorInit ==
    /\ NoCrawl
    /\ NoParse
    /\ NoTurbo
    /\ scrape_pc = "soup"
    /\ scrape_url = NoUrl
    /\ SELENIUM_AVAILABLE = FALSE
    /\ session = NoSession
    /\ page_fetch \in { Fetch("soup", s) : s \in VendorSoups }
    /\ record = NoListing
    /\ has_missing = FALSE
    /\ stdout = <<>>
    /\ scrape_log = <<>>

ExtractVendorName ==
    /\ scrape_pc = "soup"
    /\ record' = [record EXCEPT !.nome_vendedor = extract_vendor_name(page_fetch.soup)]
    /\ scrape_pc' = "named"
    /\ UNCHANGED <<crawl_vars, parse_vars, turbo_vars, scrape_url, SELENIUM_AVAILABLE, session,
                   page_fetch, has_missing, stdout, scrape_log>>

VendorSpec == VendorInit /\ [][ExtractVendorName]_vars

----------------------------------------------------------------------------
\* Vocabulary of the properties.
QueryKeys(q) == {q[i][1] : i \in 1..Len(q)}

AfterPage1 == pc \in {"plan", "dispatch", "crawl", "summary", "done"}

Dispatched == {p \in Tracked : fstate[p] # "none"}

\* Every link of every page result merged so far: page 1's and the yielded pages'.
MergedSoFar == page1_links \cup UNION {result[p] : p \in yielded}

LoggedN(msg, n) == \E i \in 1..Len(log) : log[i].msg = msg /\ log[i].n = n

FetchFailed(r) == r.raised \/ r.status # HTTP_OK \/ ~r.parses

----------------------------------------------------------------------------
\* C1 (dedup invariant): from the moment page 1 is merged, the size of the result
\* set, the count of the last progress line and the total of the final summary all
\* equal the number of distinct links among the page results merged so far.
C1_CountIsDistinct ==
    AfterPage1 =>
        /\ Cardinality(all_links) = Cardinality(MergedSoFar)
        /\ (progress # <<>> => progress[3] = Cardinality(MergedSoFar))
        /\ (pc = "done" => LoggedN("TOTAL FINAL", Cardinality(MergedSoFar)))

\* C1: merging a page whose links are all present already changes neither the set
\* nor the count.
C1_RemergeIsNoOp ==
    \A p \in AllPages :
        (p \notin yielded /\ p \in yielded' /\ result[p] \subseteq all_links)
            => all_links' = all_links

\* C1: the dedup invariant, in every reachable state and over every merge step.
C1_Dedup == [](C1_CountIsDistinct) /\ [][C1_RemergeIsNoOp]_vars

\* C1 witness: a finished crawl that merged two pages sharing a link, one of them
\* bringing nothing new.
C1_Witness ==
    /\ pc = "done"
    /\ \E p, q \in yielded :
        /\ p # q
        /\ result[p] # {}
        /\ result[p] \subseteq page1_links
        /\ result[q] \cap result[p] # {}
        /\ ~(result[q] \subseteq page1_links)

\* C2 (order independence): when the loop is over, the result set is the union of
\* page 1's links and of what every page 2..N returned, whatever the order in
\* which the futures completed and were yielded.
C2_FinalIsUnion ==
    pc \in {"summary", "done"} =>
        all_links = page1_links \cup UNION {result[p] : p \in 2..total_pages}

\* C2 witness: a finished crawl of at least two dispatched pages that returned
\* different, non-empty link sets.
C2_Witness ==
    /\ pc = "done"
    /\ \E p, q \in pages_to_fetch :
        /\ p < q
        /\ result[p] # {} /\ result[q] # {}
        /\ result[p] # result[q]
    /\ all_links = Links

\* C3 (automatic page count): with no explicit page count and a total T > 0, the
\* planned count is min(ceil(T / 50), 100): it is 100 when T > 5000, and otherwise
\* the one c with 50 (c - 1) < T <= 50 c; T = 1240 gives 25 and T = 120 gives 3.
C3_AutoPages ==
    (pc = "dispatch" /\ args_pages <= 0 /\ total_ads > 0) =>
        /\ IF total_ads > 50 * 100
           THEN total_pages = 100
           ELSE 50 * (total_pages - 1) < total_ads /\ total_ads <= 50 * total_pages
        /\ (total_ads = 1240 => total_pages = 25)
        /\ (total_ads = 120 => total_pages = 3)

\* C3 witness: the plan made for 1240 detected listings.
C3_Witness ==
    pc = "dispatch" /\ args_pages = 0 /\ total_ads = 1240 /\ total_pages = 25
        /\ LoggedN("Automatico", 25)

\* C4 (explicit page count): a page count p > 0 given by the caller is the planned
\* count, whatever total page 1 reported.
C4_ManualVerbatim ==
    (pc = "dispatch" /\ args_pages > 0) =>
        total_pages = args_pages /\ LoggedN("Manual", args_pages)

\* C4 witness: an explicit count above the 100-page limit, with a detected total
\* that would have given another count.
C4_Witness ==
    /\ pc = "dispatch"
    /\ args_pages > OLX_PAGE_LIMIT
    /\ total_ads = 120
    /\ total_pages = args_pages

\* C5 (safe fallback): with no explicit page count and an undetermined total, the
\* planned count is SAFE_FALLBACK_PAGES, which is 50, and the warning that the
\* total could not be detected is logged.
C5_Fallback ==
    (pc = "dispatch" /\ args_pages <= 0 /\ total_ads = 0) =>
        /\ total_pages = SAFE_FALLBACK_PAGES
        /\ total_pages = 50
        /\ \E i \in 1..Len(log) :
              log[i] = LogRec("WARNING", "Total ainda indetectavel", 50)

\* C5 witness: the plan made when nothing was detected and nothing was asked for.
C5_Witness ==
    pc = "dispatch" /\ args_pages = 0 /\ total_ads = 0 /\ total_pages = 50

\* C6 (page plan), in every state: page 1 is requested at most once, by main and
\* never by a worker; once the plan is dispatched the futures are exactly those of
\* the page indexes 2..N, each submitted with the base URL rewritten to carry the
\* single page parameter o = its index; no page is requested more than once, and
\* only a dispatched page is requested.
C6_PlanState ==
    /\ fstate[1] = "none"
    /\ nreq[1] = (IF pc \in {"start", "page1", "returned"} THEN 0 ELSE 1)
    /\ \A p \in Pages :
        /\ nreq[p] = (IF fstate[p] = "finished" THEN 1 ELSE 0)
        /\ p \in Dispatched =>
            /\ QueryValues(future_to_page[p].query, "o") = <<ToString(p)>>
            /\ [future_to_page[p] EXCEPT !.query = <<>>] = [start_url EXCEPT !.query = <<>>]
    /\ pc \in {"crawl", "summary", "done"} =>
        /\ Dispatched = (IF total_pages > 1 THEN 2..total_pages ELSE {})
        /\ pages_to_fetch = Dispatched
    /\ pc \notin {"crawl", "summary", "done"} => Dispatched = {}

\* C6: the dispatched set is fixed when the loop starts: no step of a worker or of
\* the loop adds, removes or re-addresses a page.
C6_PlanFixed ==
    pc = "crawl" =>
        /\ pages_to_fetch' = pages_to_fetch
        /\ future_to_page' = future_to_page
        /\ {p \in AllPages : fstate'[p] # "none"} = Dispatched

\* C6: the page plan, in every state and over every step.
C6_PagePlan == [](C6_PlanState) /\ [][C6_PlanFixed]_vars

\* C6 witness: a finished crawl of a base URL that already carried a page
\* parameter, with every page of the plan requested once.
C6_Witness ==
    /\ pc = "done"
    /\ total_pages = MaxCrawlPages
    /\ QueryValues(start_url.query, "o") = <<"2">>
    /\ \A p \in 2..total_pages : nreq[p] = 1

\* C7 as stated: whatever the detected total and the page-count override, the
\* planned page count lies between 1 and the 100-page limit.
C7_AlwaysWithinLimit ==
    pc = "dispatch" => (1 <= total_pages /\ total_pages <= OLX_PAGE_LIMIT)

\* C7 as amended: the planned page count is at least 1; it is at most the 100-page
\* limit whenever no positive override is given (zero and negative overrides
\* included), and with a positive override p it is p, limit or not.
C7_BoundedPlan ==
    pc = "dispatch" =>
        /\ 1 <= total_pages
        /\ (args_pages <= 0 => total_pages <= OLX_PAGE_LIMIT)
        /\ (args_pages > 0 => total_pages = args_pages)

\* C7 witness: a negative override with a detected total that needs more than 100
\* pages, planned at the limit.
C7_Witness ==
    /\ pc = "dispatch"
    /\ args_pages < 0
    /\ total_ads > ADS_PER_PAGE * OLX_PAGE_LIMIT
    /\ total_pages = OLX_PAGE_LIMIT

\* C8 (first-page failure is fatal): when the request for page 1 raised or came
\* back with a status other than 200, the run is over: nothing was dispatched,
\* page 1's request is the only request made, and there is no output file.
C8_FirstPageFatal ==
    (nreq[1] > 0 /\ (page1_resp.raised \/ page1_resp.status # HTTP_OK)) =>
        /\ pc = "aborted"
        /\ ~ENABLED Next
        /\ Dispatched = {}
        /\ pages_to_fetch = {}
        /\ \A p \in AllPages : nreq[p] = (IF p = 1 THEN 1 ELSE 0)
        /\ outfile = NoFile
        /\ all_links = {}

\* C8 witness: page 1 answered with a status other than 200 and a body full of
\* links.
C8_Witness ==
    /\ nreq[1] = 1
    /\ ~page1_resp.raised
    /\ page1_resp.status = HTTP_TOO_MANY
    /\ page1_resp.links # {}
    /\ pc = "aborted"

\* C9 (later-page failure degrades to empty): a page other than page 1 whose
\* request raised, came back with a status other than 200, or could not be parsed
\* returns the empty result; the loop still yields every page of the plan, and the
\* final set holds every link of page 1 and of every page that succeeded.
C9_FailureIsEmpty ==
    /\ \A p \in Pages :
        (fstate[p] = "finished" /\ FetchFailed(resp[p])) => result[p] = {}
    /\ pc \in {"summary", "done"} =>
        /\ yielded = (IF total_pages > 1 THEN 2..total_pages ELSE {})
        /\ page1_links \subseteq all_links
        /\ \A p \in 2..total_pages : ~FetchFailed(resp[p]) => resp[p].links \subseteq all_links

\* C9: the result set never shrinks.
C9_NeverShrinks == all_links \subseteq all_links'

\* C9: later-page failures, in every state and over every step.
C9_Degrade == [](C9_FailureIsEmpty) /\ [][C9_NeverShrinks]_vars

\* C9 witness: a finished crawl in which one page failed with a status other than
\* 200, its body holding links, and a later-yielded page succeeded with links.
C9_Witness ==
    /\ pc = "done"
    /\ page1_links # {}
    /\ \E p, q \in pages_to_fetch :
        /\ ~resp[p].raised /\ resp[p].status # HTTP_OK /\ resp[p].links # {}
        /\ ~FetchFailed(resp[q]) /\ resp[q].links # {}
        /\ ~(resp[p].links \subseteq all_links)

\* C10 (run to completion), safety: the summary is logged and the file written only
\* when every dispatched future has finished and been yielded, the processed
\* counter then equal to the number of dispatched pages.
C10_SummaryAfterAll ==
    (pc \in {"summary", "done"} \/ outfile.exists \/ Logged("FIM DO PROCESSO")) =>
        /\ processed = Cardinality(Dispatched)
        /\ yielded = Dispatched
        /\ \A p \in Dispatched : fstate[p] = "finished"

\* C10: there is no cancellation: a dispatched future stays dispatched, a finished
\* one stays finished, a yielded one stays yielded.
C10_NoCancel ==
    \A p \in AllPages :
        /\ fstate[p] # "none" => fstate'[p] # "none"
        /\ fstate[p] = "finished" => (fstate'[p] = "finished" /\ result'[p] = result[p])
        /\ p \in yielded => p \in yielded'

\* C10: every dispatched page fetch eventually finishes and is yielded to the loop,
\* and the summary and the file come only after all of them.
C10_RunToCompletion ==
    /\ [](C10_SummaryAfterAll)
    /\ [][C10_NoCancel]_vars
    /\ \A p \in Pages : (fstate[p] = "pending") ~> (p \in yielded /\ fstate[p] = "finished")

\* C10 witness: a finished crawl whose pages all failed or came back empty, with
\* the file written.
C10_Witness ==
    /\ pc = "done"
    /\ outfile.exists
    /\ processed = MaxCrawlPages - 1
    /\ \E p \in pages_to_fetch : resp[p].raised

----------------------------------------------------------------------------
\* C11: at no time are more than MAX_WORKERS page fetches in flight, however
\* many pages the plan holds; a pending page starts only in a step that finds a
\* worker free, and until then it stays pending.
C11_InFlight == Cardinality(Running) <= MAX_WORKERS

C11_StartsWhenFree ==
    \A p \in Tracked :
        (fstate[p] = "pending" /\ fstate'[p] = "running") => Cardinality(Running) < MAX_WORKERS

C11_PoolLimit == [](C11_InFlight) /\ [][C11_StartsWhenFree]_vars

\* More pages are planned than the pool has workers: four fetches are in flight
\* and a submitted page is still waiting.
C11_Witness ==
    /\ pc = "crawl"
    /\ Cardinality(pages_to_fetch) > MAX_WORKERS
    /\ Cardinality(Running) = MAX_WORKERS
    /\ Pending # {}

----------------------------------------------------------------------------
\* C12: the shared result set is changed only by the coordinator's merge step,
\* one completed page at a time: a step of the crawl that changes all_links
\* yields exactly one finished page and adds that page's whole result, and it
\* is no step of a worker; a step in which a future or a worker's result changes
\* leaves all_links alone; in every state all_links holds whole page results
\* only, never a part of one.
C12_MergeStep ==
    (pc = "crawl" /\ all_links' # all_links) =>
        \E p \in pages_to_fetch \ yielded :
            /\ fstate[p] = "finished"
            /\ yielded' = yielded \cup {p}
            /\ all_links' = all_links \cup result[p]
            /\ fstate' = fstate
            /\ result' = result
            /\ resp' = resp

C12_WorkersNeverWrite ==
    (fstate' # fstate \/ result' # result \/ resp' # resp) => all_links' = all_links

C12_OnePageAtATime == Cardinality(yielded' \ yielded) <= 1

C12_WholePages == AfterPage1 => all_links = MergedSoFar

C12_SingleWriter ==
    [](C12_WholePages) /\ [][C12_MergeStep /\ C12_WorkersNeverWrite /\ C12_OnePageAtATime]_vars

\* A page's new links have been merged while another worker is still fetching.
C12_Witness ==
    /\ pc = "crawl"
    /\ \E p \in yielded : ~(result[p] \subseteq page1_links)
    /\ Running # {}

----------------------------------------------------------------------------
\* C13: the URL a page is submitted with holds exactly one parameter o, whose
\* value is the page number; its scheme, host, path and fragment are the base
\* URL's; and every other parameter of the base URL is there with all of its
\* values, repeated and blank-valued parameters included, and no other.
C13_SamePlace(u, base) ==
    /\ u.scheme = base.scheme
    /\ u.netloc = base.netloc
    /\ u.path = base.path
    /\ u.params = base.params
    /\ u.fragment = base.fragment

C13_OthersKept(u, base) ==
    /\ QueryKeys(u.query) \ {"o"} = QueryKeys(base.query) \ {"o"}
    /\ \A k \in QueryKeys(base.query) \ {"o"} : QueryValues(u.query, k) = QueryValues(base.query, k)

C13_PageUrl ==
    \A p \in Dispatched :
        /\ QueryValues(future_to_page[p].query, "o") = <<ToString(p)>>
        /\ C13_SamePlace(future_to_page[p], start_url)
        /\ C13_OthersKept(future_to_page[p], start_url)

\* C13, as the code has it: the same, for the parameters of the base URL that
\* have a non-blank value; parse_qs drops the others.
C13_NonBlank(q) == SelectSeq(q, LAMBDA kv : kv[2] # "")

C13_PageUrlNonBlank ==
    \A p \in Dispatched :
        /\ QueryValues(future_to_page[p].query, "o") = <<ToString(p)>>
        /\ C13_SamePlace(future_to_page[p], start_url)
        /\ C13_OthersKept(future_to_page[p], [start_url EXCEPT !.query = C13_NonBlank(start_url.query)])

\* Page URLs were built from a base URL that holds a page parameter already and
\* another parameter with a blank value.
C13_Witness ==
    /\ Dispatched # {}
    /\ QueryValues(start_url.query, "o") # <<>>
    /\ \E i \in 1..Len(start_url.query) : start_url.query[i] = <<"q", "">>

----------------------------------------------------------------------------
\* C14: the total parse_data returns is the result of the first strategy, in
\* the order structured JSON, visible text, meta/title, raw-source regex, that
\* yields a value above 0; no later strategy changes it; it is never negative;
\* and it is 0 exactly when all four strategies fail.  A strategy that raises
\* yields nothing.
C14_Yields(c) ==
    << JsonTotal(c),
       try_extract_visible_total(c),
       IF MetaRaises(c) THEN 0 ELSE try_extract_meta_total(c),
       RawRegexTotal(c.raw) >>

C14_Succeeds(c, i) == C14_Yields(c)[i] > 0

C14_TotalIsFirstSuccess(c, total) ==
    /\ total >= 0
    /\ \A i \in 1..4 :
        (C14_Succeeds(c, i) /\ \A j \in 1..(i - 1) : ~C14_Succeeds(c, j)) => total = C14_Yields(c)[i]
    /\ total = 0 <=> \A i \in 1..4 : ~C14_Succeeds(c, i)

C14_Cascade ==
    parsed.state # "none" =>
        /\ parsed.state = "returned"
        /\ C14_TotalIsFirstSuccess(content, parsed.total)

\* C14, for the calls of parse_data that return: the same.
C14_CascadeOnReturn ==
    parsed.state = "returned" => C14_TotalIsFirstSuccess(content, parsed.total)

\* parse_data was called on a page whose payload and visible text give no
\* total, whose title has no string, and whose raw source holds a plausible
\* count.
C14_Witness ==
    /\ parsed.state # "none"
    /\ ~C14_Succeeds(content, 1)
    /\ ~C14_Succeeds(content, 2)
    /\ MetaRaises(content)
    /\ C14_Succeeds(content, 4)

----------------------------------------------------------------------------
\* Vocabulary of the single-listing properties.
Provenance == data.origem_dados.s

Looked(source) == \E i \in 1..Len(consulted) : consulted[i] = source

\* Strategy A has run and its extraction of the #initial-data ad completed.
InitialYieldsAd ==
    /\ turbo_pc \in {"B", "C", "returned"}
    /\ response.initial_data.kind = "ok"
    /\ JHas(response.initial_data.json, "ad")
    /\ ~extract_from_json(JGet(response.initial_data.json, "ad"), DataFromUrl(turbo_url)).raised

\* The older payload holds an ad whose extraction would complete.
NextWouldYieldAd ==
    /\ response.next_data.kind = "ok"
    /\ ~NextAdRaises(response.next_data.json)
    /\ JTruthy(NextAd(response.next_data.json))
    /\ ~extract_from_json(NextAd(response.next_data.json), DataFromUrl(turbo_url)).raised

----------------------------------------------------------------------------
\* C15: the sources are looked into in the order #initial-data, #__NEXT_DATA__,
\* CSS; when #initial-data yields an ad, #__NEXT_DATA__ is never looked into and
\* the provenance is 'JSON (Initial Data)'; and the CSS fallback changes no
\* field that holds a value when it starts.
C15_Ranked ==
    \A i, j \in 1..Len(consulted) :
        i < j => \/ consulted[i] = "#initial-data" /\ consulted[j] \in {"#__NEXT_DATA__", "CSS"}
                 \/ consulted[i] = "#__NEXT_DATA__" /\ consulted[j] = "CSS"

C15_FirstWins ==
    InitialYieldsAd => Provenance = "JSON (Initial Data)" /\ ~Looked("#__NEXT_DATA__")

C15_CssKeeps ==
    turbo_pc = "C" => \A k \in Fields : JTruthy(data[k]) => data'[k] = data[k]

C15_Priority == [](C15_Ranked /\ C15_FirstWins) /\ [][C15_CssKeeps]_vars

\* Both payloads hold a usable ad and the page has the CSS elements: the record
\* is returned with the newer payload's values, the CSS fallback having run.
C15_Witness ==
    /\ turbo_pc = "returned"
    /\ InitialYieldsAd
    /\ NextWouldYieldAd
    /\ Looked("CSS")
    /\ response.css.valor # JNull
    /\ data.versao_veiculo = JStr("Uno A")
    /\ data.valor_anuncio = JStr("R$ 45.000")

----------------------------------------------------------------------------
\* C16: when the page came with status 200 and neither payload gives an ad
\* (each is absent, or malformed: not parseable, without an ad, or with an ad
\* whose reading raises), the provenance is never a structured-data tag, the
\* returned record's provenance is 'HTML/CSS (Fallback)', and the extraction
\* went on through every strategy to the CSS fallback.
Fetched == ~response.raised /\ response.status_code = HTTP_OK

InitialUnusable ==
    \/ response.initial_data.kind # "ok"
    \/ ~JHas(response.initial_data.json, "ad")
    \/ extract_from_json(JGet(response.initial_data.json, "ad"), DataFromUrl(turbo_url)).raised

C16_NoStructuredTag ==
    (Fetched /\ InitialUnusable /\ ~NextWouldYieldAd) =>
        /\ Provenance \notin {"JSON (Initial Data)", "JSON (Next Data)"}
        /\ turbo_pc = "returned" =>
            /\ Provenance = "HTML/CSS (Fallback)"
            /\ consulted = <<"#initial-data", "#__NEXT_DATA__", "CSS">>

C16_Absorbed ==
    /\ turbo_pc = "A" => turbo_pc' = "B"
    /\ turbo_pc = "B" => turbo_pc' = "C"
    /\ turbo_pc = "C" => turbo_pc' = "returned"

C16_FallbackProvenance == [](C16_NoStructuredTag) /\ [][C16_Absorbed]_vars

\* A page with an unparseable #initial-data and a #__NEXT_DATA__ ad whose
\* reading raises was answered from the CSS elements.
C16_Witness ==
    /\ turbo_pc = "returned"
    /\ Fetched
    /\ response.initial_data.kind = "invalid"
    /\ response.next_data.kind = "ok"
    /\ NextAd(response.next_data.json) = NullUserAd("B")
    /\ data.marca_veiculo = JStr("Fiat")
    /\ Provenance = "HTML/CSS (Fallback)"

----------------------------------------------------------------------------
\* C17: the provenance is populated only with a value: the step that names a
\* strategy as the provenance is a step in which that strategy populated at
\* least one field; and a field no strategy found stays None, it never holds
\* the empty string or the string 'None'.
C17_TagComesWithValue ==
    data'.origem_dados # data.origem_dados =>
        \E k \in Fields : data'[k] # data[k] /\ JTruthy(data'[k]) /\ data'[k] # JStr("None")

C17_AbsentIsNone == \A k \in Fields : data[k] \notin {JStr(""), JStr("None")}

C17_ProvenanceValue == [](C17_AbsentIsNone) /\ [][C17_TagComesWithValue]_vars

\* A page without payloads and without any of the CSS elements was returned
\* with the provenance 'HTML/CSS (Fallback)' and no field but the URL's.
C17_Witness ==
    /\ turbo_pc = "returned"
    /\ Fetched
    /\ Provenance = "HTML/CSS (Fallback)"
    /\ \A k \in Fields : data[k] = DataFromUrl(turbo_url)[k]

\* An ad without seller and brand was returned with the provenance of its
\* payload and fields holding the empty string.
C17_WitnessEmpty ==
    /\ turbo_pc = "returned"
    /\ Provenance = "JSON (Initial Data)"
    /\ data.nome_vendedor = JStr("")
    /\ data.id_anuncio = JStr("None")

----------------------------------------------------------------------------
\* Vocabulary of the listing scraper's properties.
Named == scrape_pc = "named"

\* The strings that are just a four-digit number
FourDigitNumbers == {ToString(n) : n \in 1000..9999}

\* The cleaned candidates of the three attempts, in the order they are tried
VendorCandidates(soup) ==
    LET all_text == get_text(Concat([i \in 1..Len(soup.nodes) |-> soup.nodes[i].strings]), <<" ">>, FALSE)
        first == SearchBeforePhrase(all_text, 1)
        second == SearchAfterVerified(all_text, 1)
    IN SpecificNames(soup) \o ContainerNames(soup)
       \o (IF first.matched THEN <<_clean_name(first.group)>> ELSE <<>>)
       \o (IF second.matched THEN <<_clean_name(second.group)>> ELSE <<>>)

----------------------------------------------------------------------------
\* C18: extract_vendor_name returns only names that satisfy the name shape
\* constraint: a returned name has more than 2 and fewer than 50 characters
\* and is not just a four-digit number; a candidate that is a four-digit
\* number is rejected, so extraction falls through to the next attempt.
C18_Shape(s) == NAME_MIN < Len(s) /\ Len(s) < NAME_MAX /\ s \notin FourDigitNumbers

C18_ValidationGate ==
    Named => (record.nome_vendedor = JNull \/ C18_Shape(record.nome_vendedor.s))

\* What the code's gate does guarantee: a returned name is one of the
\* candidates and has more than 2 and fewer than 50 characters, no candidate
\* tried before it has such a length, and None is returned only when no
\* candidate of the first two attempts has such a length.
C18_LengthGate ==
    Named =>
        LET cands == VendorCandidates(page_fetch.soup)
            tried == SpecificNames(page_fetch.soup) \o ContainerNames(page_fetch.soup)
            nome == record.nome_vendedor
        IN /\ nome # JNull =>
                /\ NAME_MIN < Len(nome.s) /\ Len(nome.s) < NAME_MAX
                /\ \E i \in 1..Len(cands) : cands[i] = nome
           /\ \A i \in 1..Len(tried) :
                NameOk(tried[i]) => nome # JNull /\ \E j \in 1..i : tried[j] = nome
           /\ nome = JNull => \A i \in 1..Len(cands) : ~NameOk(cands[i]) \/ i > Len(tried)

\* The element of the specific selector holds 2015, the profile container holds
\* the seller's name, and 2015 was returned as the seller's name.
C18_Witness ==
    /\ Named
    /\ SpecificNames(page_fetch.soup) = <<JStr("2015")>>
    /\ ContainerNames(page_fetch.soup) = <<JStr("Maria Silva")>>
    /\ record.nome_vendedor = JStr("2015")

----------------------------------------------------------------------------
\* Vocabulary: check_missing_data has run; display_results has run.
Checked == scrape_pc \in {"display", "finish", "done"}
Displayed == scrape_pc \in {"finish", "done"}

Printed(line) == \E i \in 1..Len(stdout) : stdout[i] = line
MainLogged(lvl, msg) == \E i \in 1..Len(scrape_log) : scrape_log[i] = LogRecord(lvl, msg)

\* A field is absent (None) or empty
Absent(v) == v = JNull \/ v = JStr("")

RequiredMissing == {f \in {"nome_vendedor", "modelo_veiculo", "valor_anuncio"} : Absent(record[f])}

\* The names of the missing required fields as the warning lists them
MissingNames ==
    LET names == (IF Absent(record.nome_vendedor) THEN <<"nome_vendedor">> ELSE <<>>)
                 \o (IF Absent(record.modelo_veiculo) THEN <<"modelo_veiculo">> ELSE <<>>)
                 \o (IF Absent(record.valor_anuncio) THEN <<"valor_anuncio">> ELSE <<>>)
    IN IF Len(names) = 1 THEN names[1]
       ELSE IF Len(names) = 2 THEN names[1] \o ", " \o names[2]
       ELSE "nome_vendedor, modelo_veiculo, valor_anuncio"

----------------------------------------------------------------------------
\* C19: check_missing_data returns True exactly when at least one of seller
\* name, model and price is absent or empty, and then its warning lists each
\* missing field (and the itemised lines on stdout name exactly the missing
\* ones); a missing reference price alone never flags the record; the
\* reference price is rendered with the 'not available' marker, which differs
\* from the 'not found' marker of the required fields.
C19_Flag == Checked => (has_missing <=> RequiredMissing # {})

C19_Warning ==
    Checked =>
        /\ RequiredMissing # {} => MainLogged("warning", "Dados essenciais não encontrados: " \o MissingNames)
        /\ RequiredMissing = {} => \A i \in 1..Len(scrape_log) : scrape_log[i].lvl # "warning"
        /\ Printed("   - Nome Vendedor") <=> "nome_vendedor" \in RequiredMissing
        /\ Printed("   - Modelo Veiculo") <=> "modelo_veiculo" \in RequiredMissing
        /\ Printed("   - Valor Anuncio") <=> "valor_anuncio" \in RequiredMissing
        /\ ~Printed("   - Preco Fipe")

C19_Markers ==
    /\ NotAvailableMarker # NotFoundMarker
    /\ Displayed =>
        /\ Absent(record.preco_fipe) <=> Printed("Preço FIPE: " \o NotAvailableMarker)
        /\ Absent(record.nome_vendedor) <=> Printed("Nome do Vendedor: " \o NotFoundMarker)
        /\ Absent(record.modelo_veiculo) <=> Printed("Modelo do Veículo: " \o NotFoundMarker)
        /\ Absent(record.valor_anuncio) <=> Printed("Valor do Anúncio: " \o NotFoundMarker)
        /\ \A i \in 1..Len(stdout) : stdout[i] # "Preço FIPE: " \o NotFoundMarker

C19_RequiredOptional == C19_Flag /\ C19_Warning /\ C19_Markers

\* A record whose only missing field is the reference price was shown with
\* the 'not available' marker and not flagged.
C19_Witness ==
    /\ Displayed
    /\ scrape_url = NoUrl
    /\ RequiredMissing = {}
    /\ record.preco_fipe = JNull
    /\ ~has_missing
    /\ Printed("Preço FIPE: " \o NotAvailableMarker)

\* A record with an empty seller name was flagged.
C19_WitnessEmpty ==
    /\ Displayed
    /\ scrape_url = NoUrl
    /\ record.nome_vendedor = JStr("")
    /\ RequiredMissing = {"nome_vendedor"}
    /\ has_missing

----------------------------------------------------------------------------
\* Vocabulary: the URL of the run passes validation; the record is on stdout,
\* each field with its value or its marker.
Validated == scrape_pc = "start" /\ validate_url(scrape_url)

Shown ==
    /\ Displayed
    /\ Printed("Nome do Vendedor: " \o (IF Absent(record.nome_vendedor) THEN NotFoundMarker
                                         ELSE record.nome_vendedor.s))
    /\ Printed("Modelo do Veículo: " \o (IF Absent(record.modelo_veiculo) THEN NotFoundMarker
                                          ELSE record.modelo_veiculo.s))
    /\ Printed("Valor do Anúncio: " \o (IF Absent(record.valor_anuncio) THEN NotFoundMarker
                                         ELSE record.valor_anuncio.s))
    /\ Printed("Preço FIPE: " \o (IF Absent(record.preco_fipe) THEN NotAvailableMarker
                                   ELSE record.preco_fipe.s))

\* The record is what the extraction that produced it found: the Selenium
\* session when it found an essential field, the fetched page otherwise.
AsFound ==
    IF page_fetch.state = "none" THEN record = extract_data_selenium(session)
    ELSE record = ExtractFromSoup(page_fetch)

----------------------------------------------------------------------------
\* C20: for every URL that passes validation, main() eventually displays the
\* record extract_data returned, with whatever fields the extraction that
\* produced it found; a run with a valid URL never exits with an error;
\* missing required fields produce a warning and the record is displayed
\* all the same; a failed fetch yields the all-absent record, which is
\* displayed too.
C20_EventuallyShown == Validated ~> Shown

C20_ShownAsFound == Checked => AsFound

C20_NeverAborts == scrape_pc = "exit1" => ~validate_url(scrape_url)

C20_WarnedNotStopped ==
    /\ [](Checked /\ RequiredMissing # {} =>
            has_missing /\ MainLogged("warning", "Dados essenciais não encontrados: " \o MissingNames))
    /\ (Checked /\ has_missing) ~> Shown

C20_FailedFetchShown ==
    /\ [](page_fetch.state = "failed" => record = NoListing)
    /\ (page_fetch.state = "failed") ~> (Shown /\ record = NoListing)

----------------------------------------------------------------------------
\* Vocabulary: the hosts of the marketplace, olx.com.br and its subdomains,
\* among the hosts of the model; a request of the link collector was issued.
MarketplaceHosts == {"olx.com.br", "www.olx.com.br", "sp.olx.com.br"}

MarketplaceUrl(u) == u # EmptyUrl /\ u.scheme \in {"http", "https"} /\ u.netloc \in MarketplaceHosts

Requested == \E p \in DOMAIN nreq : nreq[p] > 0

----------------------------------------------------------------------------
\* C21: a start URL that is not a valid marketplace URL aborts the run of
\* the link collector before any network request: no request is ever issued
\* for such a URL.
C21_NoRequestForInvalidUrl == ~MarketplaceUrl(start_url) => ~Requested

\* The empty URL is the one input main() of coletor_links.py turns away: the
\* run returns with no request and no log line.
C21_EmptyUrlReturns ==
    start_url = EmptyUrl => pc \in {"start", "returned"} /\ ~Requested /\ log = <<>>

\* main() of main.py: a URL that fails validate_url never gets a browser
\* session or a page fetch, and the run ends with exit status 1.
C21_ListingEntry ==
    ~validate_url(scrape_url) =>
        /\ session = NoSession
        /\ page_fetch = NoFetch
        /\ scrape_pc \in {"start", "exit1"}

\* Page 1 of a URL of another host was requested.
C21_Witness ==
    /\ start_url.netloc = "www.example.org"
    /\ nreq[1] = 1
    /\ page1_resp # NoResponse


----------------------------------------------------------------------------
\* Vocabulary: the host is olx.com.br or a subdomain of it (it ends with
\* '.olx.com.br' after at least one more character); the scheme is http or
\* https; main() turned the URL away.
MarketplaceHost(host) ==
    \/ LowerAll(host) = DomainText
    \/ /\ Len(host) > Len(DomainText) + 1
       /\ LowerAll(SubSeq(host, Len(host) - Len(DomainText), Len(host))) = <<".">> \o DomainText

WebScheme(scheme) == LowerAll(scheme) \in {Http, Https}

TurnedAway == scrape_pc = "exit1"

----------------------------------------------------------------------------
\* C22: validate_url accepts a URL exactly when its scheme is http or https
\* and its host is olx.com.br or a subdomain of it: of the URLs main() has
\* decided on, those turned away are exactly the others.
C22_ExactlyMarketplace ==
    scrape_pc # "start" =>
        (~TurnedAway <=> WebScheme(scrape_url.scheme) /\ MarketplaceHost(scrape_url.host))

\* What the pattern does decide: the empty URL and every other scheme are
\* turned away, and so is every host that does not begin with olx.com.br
\* after at most one label.
C22_PrefixOnly ==
    scrape_pc # "start" =>
        /\ scrape_url = NoUrl \/ ~WebScheme(scrape_url.scheme) => TurnedAway
        /\ ~TurnedAway =>
              \E k \in 0..Len(scrape_url.host) :
                  /\ DomainAt(scrape_url.host, k + 1)
                  /\ k > 0 => scrape_url.host[k] = "."
                  /\ \A j \in 1..(k - 1) : scrape_url.host[j] # "."

\* The URL https://olx.com.br.example.org/ went through validation and its
\* extraction began.
C22_Witness ==
    /\ scrape_url.host = DomainText \o <<".", "e", "x", "a", "m", "p", "l", "e", ".", "o", "r", "g">>
    /\ scrape_pc \notin {"start", "exit1"}


----------------------------------------------------------------------------
\* Vocabulary: page p was fetched and parsed, and gave no link.
YieldedNothing(p) ==
    IF p = 1
    THEN page1_resp # NoResponse /\ ~FetchFailed(page1_resp) /\ page1_resp.links = {}
    ELSE fstate[p] = "finished" /\ ~FetchFailed(resp[p]) /\ resp[p].links = {}

----------------------------------------------------------------------------
\* C23: a page that yields zero links halts the crawl: no request is issued
\* for a page of higher index once a page has been fetched, parsed and found
\* to hold no link.
C23_EmptyPageHalts ==
    [][\A q \in Tracked :
          nreq'[q] > nreq[q] => ~\E p \in Tracked : p < q /\ YieldedNothing(p)]_vars

\* What the loop does with an empty page: it is counted and the result set
\* is left as it was.
C23_EmptyPageSkipped ==
    [][\A p \in Tracked :
          p \in yielded' \ yielded /\ result[p] = {} =>
              all_links' = all_links /\ processed' = processed + 1 /\ pc' = "crawl"]_vars

\* Page 2 gave no link, the loop took its result, and page 3 was requested
\* all the same.
C23_Witness ==
    /\ YieldedNothing(2)
    /\ 2 \in yielded
    /\ nreq[3] = 1
    /\ resp[3].links # {}


----------------------------------------------------------------------------
\* Vocabulary: the name and the model obtained on the rendered page of the
\* session; the price of the first strategy, in the order of the chain, that
\* finds one, a strategy that raises counting as one that finds nothing; the
\* record of a session whose strategy failures are all absorbed.
ObtainedName == extract_vendor_name_selenium(session.driver_name, session.soup)

RECURSIVE ChainPrice(_, _)
ChainPrice(outcomes, i) ==
    IF i > Len(outcomes) THEN session.soup.valor
    ELSE IF outcomes[i] = "price" THEN session.finds.price
    ELSE ChainPrice(outcomes, i + 1)

AbsorbedRecord ==
    Listing(ObtainedName, session.soup.modelo,
            ChainPrice(<<session.finds.official>> \o session.finds.generic, 1), session.soup.fipe)

SeleniumDecided == session.state = "page" /\ scrape_pc # "extract"

----------------------------------------------------------------------------
\* C24: an exception raised inside a single extraction strategy is caught at
\* that strategy: the field extractor goes on with the next strategy, and the
\* record of the session keeps the values obtained for the other fields.
\* When that record has an essential field, it is the record of the run and
\* no fallback fetch is made.
C24_StrategyFailuresAbsorbed ==
    SeleniumDecided /\ AnyEssential(AbsorbedRecord) =>
        /\ scrape_pc # "fallback"
        /\ page_fetch = NoFetch
        /\ record = AbsorbedRecord

\* The failures the code absorbs: any exception under the official selectors,
\* and TimeoutException or NoSuchElementException under a generic selector.
C24_AbsorbedWhereCaught ==
    /\ SeleniumDecided
    /\ AnyEssential(AbsorbedRecord)
    /\ \A i \in 1..GENERIC_SELECTORS : session.finds.generic[i] # "stale"
    => /\ scrape_pc # "fallback"
       /\ page_fetch = NoFetch
       /\ record = AbsorbedRecord

\* The name and the model were obtained, the official selectors found no
\* price, the first generic selector raised another WebDriverException: the
\* record of the session is lost and the run falls back to a fetch, which
\* fails.
C24_Witness ==
    /\ session.state = "page"
    /\ ObtainedName = JStr("Henrique")
    /\ session.soup.modelo = JStr("Gol 1.0")
    /\ session.finds.official = "nothing"
    /\ session.finds.generic[1] = "stale"
    /\ page_fetch.state = "failed"
    /\ record = NoListing
    /\ has_missing

\* A failure under the official selectors and a TimeoutException under the
\* first generic selector were absorbed: the second generic selector gave
\* the price, and the name was kept.
C24_WitnessAbsorbed ==
    /\ session.state = "page"
    /\ session.finds.official = "stale"
    /\ session.finds.generic[1] = "timeout"
    /\ session.finds.generic[2] = "price"
    /\ scrape_pc = "check"
    /\ record.valor_anuncio = session.finds.price
    /\ record.nome_vendedor = JStr("Henrique")


----------------------------------------------------------------------------
\* Vocabulary: the lines of links_olx_final.txt as a set.
WrittenLinks == {outfile.lines[i] : i \in DOMAIN outfile.lines}

----------------------------------------------------------------------------
\* C25: links_olx_final.txt is written by the run that reaches its end, and
\* then it holds the final result set, one URL per line: every link of the
\* set and nothing else, no line twice, in lexicographic order; the total of
\* the summary is the number of lines written.
C25_OutputFile ==
    /\ pc = "done" <=> outfile.exists
    /\ outfile.exists =>
        /\ WrittenLinks = all_links
        /\ Len(outfile.lines) = Cardinality(all_links)
        /\ \A i, j \in DOMAIN outfile.lines : i < j => outfile.lines[i] < outfile.lines[j]
        /\ LoggedN("TOTAL FINAL", Len(outfile.lines))
        /\ \A i \in DOMAIN log : log[i].msg = "TOTAL FINAL" => log[i].n = Len(outfile.lines)

\* A file of every link of the model, gathered from more than one page.
C25_Witness ==
    /\ pc = "done"
    /\ outfile.lines = [i \in 1..MaxLinks |-> i]
    /\ page1_links # all_links
    /\ yielded # {}


----------------------------------------------------------------------------
\* Vocabulary: the record the CSS fallback alone gives for the page, from the
\* record made of the URL.
CssOnlyRecord == CssFallback(response.css, FALSE, DataFromUrl(turbo_url))

----------------------------------------------------------------------------
\* C26: a structured-data strategy that does not complete (its payload is
\* absent or malformed, or reading its ad raises partway) leaves every field
\* of the record as it was before the strategy ran; and a returned record
\* tagged 'HTML/CSS (Fallback)' or 'N/A' holds no value written by a JSON
\* strategy: it is the record the CSS fallback alone gives.
C26_FailedStepKeepsRecord ==
    turbo_pc \in {"A", "B"} /\ ~json_found' => data' = data

C26_UntaggedHoldsNoJsonValue ==
    (turbo_pc = "returned" /\ Fetched /\ Provenance \in {"HTML/CSS (Fallback)", "N/A"}) =>
        \A k \in Fields : data[k] = CssOnlyRecord[k]

C26_NoChangeFromFailedStrategy ==
    [](C26_UntaggedHoldsNoJsonValue) /\ [][C26_FailedStepKeepsRecord]_vars

\* What does hold: a payload that is absent, unparseable or without an ad
\* leaves the record as it was.
C26_UnreadableKeepsRecord ==
    [][/\ (turbo_pc = "A" /\ (response.initial_data.kind # "ok" \/ ~JHas(response.initial_data.json, "ad"))
              => data' = data)
       /\ (turbo_pc = "B" /\ response.next_data.kind # "ok" => data' = data)]_vars

\* The ad of #initial-data has a null user: the title and the price were
\* written before user.get raised, no other payload gave an ad, and the
\* record was returned with them under the provenance 'HTML/CSS (Fallback)'.
C26_Witness ==
    /\ turbo_pc = "returned"
    /\ response.initial_data.kind = "ok"
    /\ JHas(response.initial_data.json, "ad")
    /\ JGet(response.initial_data.json, "ad") = NullUserAd("A")
    /\ response.next_data.kind = "absent"
    /\ response.css = NoCss
    /\ Provenance = "HTML/CSS (Fallback)"
    /\ data.versao_veiculo = JStr("Palio A")
    /\ data.valor_anuncio = JStr("R$ 20.000")


----------------------------------------------------------------------------
\* Vocabulary: parse_data returned and the strategies before the raw-source
\* regex gave no total; the patterns whose first match in the raw source
\* holds a value above the plausibility threshold.
RawDecides ==
    /\ parsed.state = "returned"
    /\ \A i \in 1..3 : ~C14_Succeeds(content, i)

PlausiblePatterns ==
    {i \in RawPatterns : content.raw[i].matched /\ IntOf(content.raw[i].group) > PLAUSIBLE_MIN}

----------------------------------------------------------------------------
\* C27: when the total is left to the raw-source regex strategy, it is never
\* 5 or less unless it is 0: a pattern whose matched value is at most 5 is
\* discarded and the next pattern tried, the first pattern with a value above
\* 5 gives the total, and the total stays 0 when no pattern qualifies.
C27_PlausibilityFilter ==
    RawDecides =>
        /\ parsed.total = 0 \/ parsed.total > PLAUSIBLE_MIN
        /\ PlausiblePatterns = {} => parsed.total = 0
        /\ \A i \in PlausiblePatterns :
              (\A j \in PlausiblePatterns : i <= j) => parsed.total = IntOf(content.raw[i].group)

\* The first pattern matched 5 and was discarded, the second did not match,
\* the third matched 6 and gave the total.
C27_Witness ==
    /\ RawDecides
    /\ content.raw[1] = Match(<<"5">>)
    /\ content.raw[2] = NoMatch
    /\ content.raw[3] = Match(<<"6">>)
    /\ parsed.total = 6

\* Every pattern that matched held 5: the total stayed 0.
C27_WitnessNone ==
    /\ RawDecides
    /\ content.raw[1] = Match(<<"5">>)
    /\ PlausiblePatterns = {}
    /\ parsed.total = 0


----------------------------------------------------------------------------
\* Vocabulary: a count, that is a value under a count-like key that is a
\* positive whole number, an int or a string of digits; the counts of a
\* structure, every one of them, in depth-first order.
IsCount(k, v) ==
    /\ k \in {"totalAdCount", "totalCount", "totalAdsFound", "total"}
    /\ \/ v.t = "int" /\ v.n > 0
       \/ v.t = "str" /\ IsDigit(v.chars) /\ IntOf(v.chars) > 0

CountOf(v) == IF v.t = "int" THEN v.n ELSE IntOf(v.chars)

RECURSIVE CountsIn(_), CountsFrom(_, _)
CountsIn(tree) == IF tree.t \in {"dict", "list"} THEN CountsFrom(tree, 1) ELSE <<>>

CountsFrom(tree, i) ==
    IF i > Len(tree.items) THEN <<>>
    ELSE (IF tree.t = "dict" /\ IsCount(tree.items[i].k, tree.items[i].v)
          THEN <<CountOf(tree.items[i].v)>>
          ELSE CountsIn(tree.items[i].v)) \o CountsFrom(tree, i + 1)

SearchedTree == content.next_data.props

----------------------------------------------------------------------------
C28_WitnessNested ==
    /\ parsed.state = "int"
    /\ parsed.total = 3
    /\ Len(CountsIn(SearchedTree)) > 1
    /\ SearchedTree.items[2] = JItem("totalCount", JInt(5))

\* Count-like keys that hold a float and a string of the digit 0: None.
C28_WitnessNone ==
    /\ parsed.state = "None"
    /\ SearchedTree = JDict(<<JItem("totalAdsFound", JFloat(2)), JItem("totalCount", JText(<<"0">>))>>)


----------------------------------------------------------------------------
\* Vocabulary: the marketplace links the structured payload of the page
\* yields (none when the payload is absent or cannot be read), and the links
\* of the anchors of the page.
PayloadLinks == JsonLinks(content)

AnchorLinks == HtmlLinks(content)

----------------------------------------------------------------------------
\* C29: the links parse_data returns are those of the structured payload
\* whenever it yields at least one marketplace link, and those of the HTML
\* anchors only when the payload is absent, malformed or yields no link; the
\* two are never mixed.  (The links are returned as list(set), so no link is
\* returned twice.)
C29_LinkPriority ==
    parsed.state = "returned" =>
        /\ PayloadLinks # {} => parsed.links = PayloadLinks
        /\ PayloadLinks = {} => parsed.links = AnchorLinks
        /\ parsed.links \subseteq PayloadLinks \/ parsed.links \subseteq AnchorLinks
        /\ content.next_data.kind = "ok" /\ parsed.links # PayloadLinks => PayloadLinks = {}

\* The payload yields one link and the anchors two others: the payload's
\* link alone is returned.
C29_Witness ==
    /\ parsed.state = "returned"
    /\ PayloadLinks = {UrlUno}
    /\ AnchorLinks = {UrlGol, UrlUno}
    /\ parsed.links = {UrlUno}

\* The payload is there and yields no link: the anchors' links are returned.
C29_WitnessFallback ==
    /\ parsed.state = "returned"
    /\ content.next_data.kind = "ok"
    /\ PayloadLinks = {}
    /\ parsed.links = AnchorLinks
    /\ AnchorLinks # {}


----------------------------------------------------------------------------
\* Vocabulary: the page numbers a page URL is rewritten with.
RewritePages == 1..(MaxCrawlPages + 1)

----------------------------------------------------------------------------
\* C30: rewriting a page URL is last-write-wins and idempotent: for the URL
\* get_page_url built for page p from the start URL u and every page number
\* q, get_page_url(get_page_url(u, p), q) = get_page_url(u, q), and with q = p
\* the URL is unchanged; a paginated URL holds one page parameter.
C30_LastWriteWins ==
    \A p \in Dispatched :
        /\ \A q \in RewritePages :
            /\ get_page_url(future_to_page[p], q) = get_page_url(start_url, q)
            /\ Len(QueryValues(get_page_url(future_to_page[p], q).query, "o")) = 1
        /\ get_page_url(future_to_page[p], p) = future_to_page[p]
        /\ Len(QueryValues(future_to_page[p].query, "o")) = 1

\* Page URLs were built from a start URL that holds two page parameters.
C30_Witness ==
    /\ Dispatched # {}
    /\ Len(QueryValues(start_url.query, "o")) = 2
    /\ \E p \in Dispatched : future_to_page[p].query # start_url.query
    /\ \E p \in Dispatched : get_page_url(future_to_page[p], 1) # future_to_page[p]

============================================================================
